---- MODULE Spec2Model ----
(***************************************************************************)
(* Model of the rollout-collection engine of ZeroGUI (OpenRLHF fork).      *)
(*                                                                         *)
(* Part 1: LLMRayActor (openrlhf/trainer/ray/vllm_engine.py), the          *)
(* per-engine request aggregator.  A Ray actor runs one method call at a   *)
(* time, so every method is one atomic action.  A method that raises       *)
(* keeps the assignments it made before the raise; the exception reaches   *)
(* the caller, which does not catch it, so it is the last call of the run. *)
(*                                                                         *)
(* sampling_params is handed through to the engine and never stored; it    *)
(* is left out of the model.                                               *)
(***************************************************************************)
EXTENDS Integers, Sequences, FiniteSets, TLC

(* ------------------------------ bounds --------------------------------- *)

\* largest expected-producer count (num_actors) an engine is built with
MaxActors == 2

\* request payloads a producer may send: lengths 0, 1 and 2, distinct items
Payloads == {<<>>, <<1>>, <<2, 3>>}

(* ------------------------------- state --------------------------------- *)

VARIABLES
    num_actors,     \* self.num_actors
    actor_counter,  \* self.actor_counter
    requests,       \* self.requests: dict in insertion order, as a sequence
                    \* of [key, val] entries with distinct keys
    has_responses,  \* whether the attribute self.responses exists
    responses,      \* self.responses: dict rank -> list of outputs
    call            \* the last method call: its name, arguments, the exception
                    \* it raised, its return value, the engine calls it made

\* the aggregator's variables
engineVars ==
    <<num_actors, actor_counter, requests, has_responses, responses, call>>

VARIABLES
    gae_args,       \* the arguments of one get_advantages_and_returns call
    gae_ret         \* what the call returned, and whether it has returned

gaeVars == <<gae_args, gae_ret>>

VARIABLES
    maker,          \* the RemoteExperienceMaker's settings: which collaborators
                    \* it has and the colocation flags of strategy.args
    sc_pc,          \* where make_experience stands
    sc_calls,       \* per collaborator, the state of its forward call and of
                    \* its empty_cache call
    sc_order,       \* the collaborators in the order their forward completed
    base_action_log_probs_ref,  \* the three locals holding object references
    value_ref,
    r_refs,
    ref_values,     \* what the final ray.get returned, and whether it has
    actor_mode,     \* "train" or "eval": the mode self.actor is in
    critic_mode     \* the mode self.critic is in, where the maker holds the
                    \* critic as a module of its own (NaiveExperienceMaker)

scoreVars == <<maker, sc_pc, sc_calls, sc_order, base_action_log_probs_ref,
               value_ref, r_refs, ref_values, actor_mode, critic_mode>>

VARIABLES
    args,           \* strategy.args and the maker's own settings, the same on
                    \* every trainer rank
    pc,             \* per trainer rank, where make_experience_list stands
    err,            \* per rank, the exception that ended its call, or "none"
    experiences,    \* per rank, the list named experiences
    rewards_list,   \* per rank, the list named rewards
    loop_i,         \* per rank, the position of the advantage loop
    loop_reward,    \* per rank, what the last turn of the advantage loop did
                    \* to its local named reward
    remote_work     \* per rank, the remote calls it has issued so far

listVars == <<args, pc, err, experiences, rewards_list, loop_i, loop_reward,
              remote_work>>

VARIABLES
    fn_args,        \* the arguments of one call of a function of the tensor
                    \* arithmetic (cumulative returns, baseline, merge)
    fn_ret,         \* what the call returned, and whether it has returned
    heap            \* the tensors the call allocated, by object identity

fnVars == <<fn_args, fn_ret, heap>>

VARIABLES
    fleet,          \* the number of engines and of producers of a deployment,
                    \* and what the producers are given to generate
    engines,        \* per engine, its expected-producer count and what it
                    \* has received and dispatched
    producers       \* per producer, where its _generate_vllm stands

fleetVars == <<fleet, engines, producers>>

\* everything outside the aggregator
trainerVars == <<gaeVars, scoreVars, listVars, fnVars, fleetVars>>

vars == <<engineVars, trainerVars>>

\* Python's None, for an optional tensor (a tensor is a non-empty sequence)
None == <<>>

\* no function call is under way
FnIdle ==
    /\ fn_args = None
    /\ fn_ret = None
    /\ heap = <<>>

\* no deployment is under way
FleetIdle ==
    /\ fleet = None
    /\ engines = <<>>
    /\ producers = <<>>

\* no make_experience_list call is under way
ListIdle ==
    /\ args = None
    /\ pc = <<>>
    /\ err = <<>>
    /\ experiences = <<>>
    /\ rewards_list = <<>>
    /\ loop_i = <<>>
    /\ loop_reward = <<>>
    /\ remote_work = <<>>

\* no make_experience call is under way
ScoreIdle ==
    /\ maker = None
    /\ sc_pc = "idle"
    /\ sc_calls = None
    /\ sc_order = <<>>
    /\ base_action_log_probs_ref = None
    /\ value_ref = None
    /\ r_refs = <<>>
    /\ ref_values = [done |-> FALSE, list |-> <<>>]
    /\ actor_mode = "train"
    /\ critic_mode = "train"

\* no get_advantages_and_returns call is under way
GaeIdle ==
    /\ gae_args = None
    /\ gae_ret = [done |-> FALSE, advantages |-> None, returns |-> None]

\* producer ranks that may call this engine: one more than it expects
Ranks == 0 .. num_actors

\* An exception is fatal to the rollout (the caller's ray.get raises and the
\* run ends): no further call reaches the engine after one.
Running == call.exc = "none"

(* ----------------------- python dict and list -------------------------- *)

DictKeys(d) == {d[i].key : i \in DOMAIN d}

\* d[k] = v: an existing key keeps its position, a new key goes last
DictSet(d, k, v) ==
    IF k \in DictKeys(d)
    THEN [i \in DOMAIN d |-> IF d[i].key = k THEN [key |-> k, val |-> v] ELSE d[i]]
    ELSE Append(d, [key |-> k, val |-> v])

Min(a, b) == IF a < b THEN a ELSE b

\* s[a:b] with 0 <= a <= b
PySlice(s, a, b) == SubSeq(s, a + 1, Min(b, Len(s)))

(* ------------------------------ engine --------------------------------- *)

\* the output the engine generates for one request
Output(x) == x + 10

\* self.llm.generate: one output per request, in request order
LLMGenerate(reqs) == [i \in DOMAIN reqs |-> Output(reqs[i])]

(* ----------------------------- dispatch -------------------------------- *)

\* num_requests: (actor_rank, len(request)) in the dict's iteration order
NumRequests(d) == [i \in DOMAIN d |-> <<d[i].key, Len(d[i].val)>>]

\* mutant of Combined: the dict is walked in increasing key order
RECURSIVE Combined_ByRank(_)
Combined_ByRank(d) ==
    IF d = <<>> THEN <<>>
    ELSE LET i == CHOOSE j \in DOMAIN d : \A k \in DOMAIN d : d[j].key <= d[k].key
         IN  d[i].val \o
             Combined_ByRank([j \in 1 .. Len(d) - 1 |->
                                 IF j < i THEN d[j] ELSE d[j + 1]])

\* requests: every request of the dict, extended in iteration order
RECURSIVE Combined(_)
Combined(d) ==
    IF d = <<>> THEN <<>>
    ELSE Combined(SubSeq(d, 1, Len(d) - 1)) \o d[Len(d)].val

\* mutant of Generate: the length test inverted
Generate_Inverted(reqs) ==
    IF Len(reqs) = 0
    THEN [calls |-> <<reqs>>, out |-> LLMGenerate(reqs)]
    ELSE [calls |-> <<>>, out |-> <<>>]

\* mutant of Generate: the engine is called whatever the length
Generate_Always(reqs) == [calls |-> <<reqs>>, out |-> LLMGenerate(reqs)]

\* if len(requests) > 0: responses = self.llm.generate(...) else: responses = []
\* calls: the calls made to the engine; out: the value of responses
Generate(reqs) ==
    IF Len(reqs) > 0
    THEN [calls |-> <<reqs>>, out |-> LLMGenerate(reqs)]
    ELSE [calls |-> <<>>, out |-> <<>>]

\* offset before the i-th entry of num_requests
RECURSIVE Offset(_, _)
Offset(nr, i) == IF i <= 1 THEN 0 ELSE Offset(nr, i - 1) + nr[i - 1][2]

\* mutant of SliceResponses: offset is never advanced
SliceResponses_NoOffset(nr, resp) ==
    [r \in {nr[i][1] : i \in DOMAIN nr} |->
        LET i == CHOOSE j \in DOMAIN nr : nr[j][1] = r
        IN  PySlice(resp, 0, nr[i][2])]

\* mutant of SliceResponses: num_requests is walked from its last entry
SliceResponses_Reversed(nr, resp) ==
    LET rev == [i \in DOMAIN nr |-> nr[Len(nr) + 1 - i]]
    IN  [r \in {rev[i][1] : i \in DOMAIN rev} |->
            LET i == CHOOSE j \in DOMAIN rev : rev[j][1] = r
            IN  PySlice(resp, Offset(rev, i), Offset(rev, i) + rev[i][2])]

\* self.responses after the slicing loop
SliceResponses(nr, resp) ==
    [r \in {nr[i][1] : i \in DOMAIN nr} |->
        LET i == CHOOSE j \in DOMAIN nr : nr[j][1] = r
        IN  PySlice(resp, Offset(nr, i), Offset(nr, i) + nr[i][2])]

\* mutant of AllArrived: the dispatch waits for one registration more
AllArrived_OneLate(counter) == counter = num_actors + 1

\* if self.actor_counter == self.num_actors
AllArrived(counter) == counter = num_actors

\* assert len(self.requests) == self.num_actors
AssertRequests(d) == Len(d) = num_actors

\* self.actor_counter = 0
ResetCounter == 0

\* mutant of ResetRequests: the request map is not cleared
ResetRequests_Kept(d) == d

\* self.requests = {}
ResetRequests(d) == <<>>

(* ------------------------------ methods -------------------------------- *)

NoCall == [op |-> "init", rank |-> 0, arg |-> <<>>, exc |-> "none",
           ret |-> <<>>, gen |-> <<>>]

Init ==
    /\ num_actors \in 1 .. MaxActors
    /\ actor_counter = 0
    /\ requests = <<>>
    /\ has_responses = FALSE
    /\ responses = <<>>
    /\ call = NoCall
    /\ GaeIdle
    /\ ScoreIdle
    /\ ListIdle
    /\ FnIdle
    /\ FleetIdle

\* the body shared by add_requests and add_requests_vlm
AddRequestsBody(name, rank, payload) ==
    LET reqs == DictSet(requests, rank, payload)
        counter == actor_counter + 1
        generated == Generate(Combined(reqs))
    IN  /\ Running
        /\ UNCHANGED <<num_actors, trainerVars>>
        /\ IF ~AllArrived(counter)
           THEN /\ requests' = reqs
                /\ actor_counter' = counter
                /\ UNCHANGED <<has_responses, responses>>
                /\ call' = [op |-> name, rank |-> rank, arg |-> payload,
                            exc |-> "none", ret |-> <<>>, gen |-> <<>>]
           ELSE IF ~AssertRequests(reqs)
           THEN /\ requests' = reqs
                /\ actor_counter' = counter
                /\ UNCHANGED <<has_responses, responses>>
                /\ call' = [op |-> name, rank |-> rank, arg |-> payload,
                            exc |-> "AssertionError", ret |-> <<>>, gen |-> <<>>]
           ELSE /\ has_responses' = TRUE
                /\ responses' = SliceResponses(NumRequests(reqs), generated.out)
                /\ actor_counter' = ResetCounter
                /\ requests' = ResetRequests(reqs)
                /\ call' = [op |-> name, rank |-> rank, arg |-> payload,
                            exc |-> "none", ret |-> <<>>,
                            gen |-> generated.calls]

add_requests(rank, prompt_token_ids) ==
    AddRequestsBody("add_requests", rank, prompt_token_ids)

add_requests_vlm(rank, vllm_vision_input) ==
    AddRequestsBody("add_requests_vlm", rank, vllm_vision_input)

\* mutant of get_responses: return self.responses[actor_rank], nothing removed
get_responses_NoPop(rank) ==
    /\ Running
    /\ UNCHANGED <<num_actors, actor_counter, requests, has_responses, responses>>
    /\ UNCHANGED trainerVars
    /\ IF ~has_responses
       THEN call' = [op |-> "get_responses", rank |-> rank, arg |-> <<>>,
                     exc |-> "AttributeError", ret |-> <<>>, gen |-> <<>>]
       ELSE IF rank \notin DOMAIN responses
       THEN call' = [op |-> "get_responses", rank |-> rank, arg |-> <<>>,
                     exc |-> "KeyError", ret |-> <<>>, gen |-> <<>>]
       ELSE call' = [op |-> "get_responses", rank |-> rank, arg |-> <<>>,
                     exc |-> "none", ret |-> responses[rank], gen |-> <<>>]

\* return self.responses.pop(actor_rank)
get_responses(rank) ==
    /\ Running
    /\ UNCHANGED <<num_actors, actor_counter, requests, has_responses>>
    /\ UNCHANGED trainerVars
    /\ IF ~has_responses
       THEN /\ UNCHANGED responses
            /\ call' = [op |-> "get_responses", rank |-> rank, arg |-> <<>>,
                        exc |-> "AttributeError", ret |-> <<>>, gen |-> <<>>]
       ELSE IF rank \notin DOMAIN responses
       THEN /\ UNCHANGED responses
            /\ call' = [op |-> "get_responses", rank |-> rank, arg |-> <<>>,
                        exc |-> "KeyError", ret |-> <<>>, gen |-> <<>>]
       ELSE /\ responses' = [r \in DOMAIN responses \ {rank} |-> responses[r]]
            /\ call' = [op |-> "get_responses", rank |-> rank, arg |-> <<>>,
                        exc |-> "none", ret |-> responses[rank], gen |-> <<>>]

Next ==
    \/ \E rank \in Ranks, p \in Payloads : add_requests(rank, p)
    \/ \E rank \in Ranks, p \in Payloads : add_requests_vlm(rank, p)
    \/ \E rank \in Ranks : get_responses(rank)

Spec == Init /\ [][Next]_vars

\* an engine that expects one producer more than the bound
InitWide ==
    /\ num_actors = MaxActors + 1
    /\ actor_counter = 0
    /\ requests = <<>>
    /\ has_responses = FALSE
    /\ responses = <<>>
    /\ call = NoCall
    /\ GaeIdle
    /\ ScoreIdle
    /\ ListIdle
    /\ FnIdle
    /\ FleetIdle

SpecWide == InitWide /\ [][Next]_vars

\* no engine call is under way: an engine built for one producer, untouched
EngineIdle ==
    /\ num_actors = 1
    /\ actor_counter = 0
    /\ requests = <<>>
    /\ has_responses = FALSE
    /\ responses = <<>>
    /\ call = NoCall

(* ====================== claims about LLMRayActor ======================= *)

\* the call was a registration (either entry point)
IsAdd(c) == c.op \in {"add_requests", "add_requests_vlm"}

\* This step is a registration that is the N-th of a round whose N
\* registrations come from N distinct ranks.
NthDistinct ==
    /\ IsAdd(call')
    /\ actor_counter + 1 = num_actors
    /\ Len(requests) = actor_counter
    /\ call'.rank \notin DictKeys(requests)

\* the ranks of the round that this step completes, and what each sent
RoundRanks == DictKeys(requests) \cup {call'.rank}

RoundPayload(p) ==
    IF p = call'.rank THEN call'.arg
    ELSE requests[CHOOSE i \in DOMAIN requests : requests[i].key = p].val

RoundPay == [p \in RoundRanks |-> RoundPayload(p)]

\* the ranks of the round in the order in which their registrations arrived
ArrivalOrder ==
    [i \in 1 .. Len(requests) + 1 |->
        IF i <= Len(requests) THEN requests[i].key ELSE call'.rank]

\* the elements of a set of ranks in increasing order
RECURSIVE SortedRanks(_)
SortedRanks(S) ==
    IF S = {} THEN <<>>
    ELSE LET m == CHOOSE x \in S : \A y \in S : x <= y
         IN  <<m>> \o SortedRanks(S \ {m})

\* the payloads pay[r] of the ranks r of order, concatenated in that order
RECURSIVE ConcatBy(_, _)
ConcatBy(order, pay) ==
    IF order = <<>> THEN <<>>
    ELSE pay[Head(order)] \o ConcatBy(Tail(order), pay)

\* the engine's responses to the requests of one payload
OutputsOf(payload) == [k \in DOMAIN payload |-> Output(payload[k])]

\* C1: in every step the engine's generate is called at most once; it is
\* called only by a registration that brings the counter to num_actors; and
\* the N-th registration of a round of N distinct ranks with a non-empty
\* combined payload calls it exactly once, with every item of the round.
C1_OneCombinedCall ==
    [][ /\ Len(call'.gen) <= 1
        /\ (Len(call'.gen) = 1 =>
                IsAdd(call') /\ actor_counter + 1 = num_actors)
        /\ (NthDistinct /\ (\E p \in RoundRanks : RoundPayload(p) # <<>>) =>
                /\ Len(call'.gen) = 1
                /\ Len(call'.gen[1]) = Len(ConcatBy(ArrivalOrder, RoundPay)))
      ]_vars

\* C1 witness: two producers have registered and the second registration
\* issued the one combined call
C1_Witness ==
    /\ num_actors = 2
    /\ IsAdd(call)
    /\ Len(call.gen) = 1
    /\ Len(call.gen[1]) = 3
    /\ has_responses
    /\ Cardinality(DOMAIN responses) = 2

\* the whole result of the generation call of this step ([] when skipped)
FullResult == IF call'.gen = <<>> THEN <<>> ELSE LLMGenerate(call'.gen[1])

\* C2: when a round of N distinct ranks dispatches, every rank of the round
\* gets a slice as long as its payload whose k-th element is the engine's
\* response to its k-th request, and the slices, concatenated in the
\* concatenation order, are the whole result; get_responses(p) then returns
\* p's slice.
C2_SlicesMatchPayloads ==
    [][ /\ (NthDistinct =>
                /\ has_responses'
                /\ DOMAIN responses' = RoundRanks
                /\ \A p \in RoundRanks :
                        responses'[p] = OutputsOf(RoundPayload(p))
                /\ ConcatBy(ArrivalOrder, responses') = FullResult)
        /\ (/\ call'.op = "get_responses"
            /\ has_responses
            /\ call'.rank \in DOMAIN responses
            => call'.exc = "none" /\ call'.ret = responses[call'.rank])
      ]_vars

\* C2 witness: a producer has collected the two responses to its two
\* requests while another producer's one response is still waiting
C2_Witness ==
    /\ call.op = "get_responses"
    /\ call.exc = "none"
    /\ call.ret = <<12, 13>>
    /\ \E q \in DOMAIN responses : q # call.rank /\ responses[q] = <<11>>

C4_CollectBlocksBeforeDispatch ==
    [][ ~ /\ call'.op = "get_responses"
          /\ call'.rank \in DictKeys(requests)
          /\ actor_counter < num_actors
      ]_vars

\* C5 as stated: a registration by a rank that already has a pending entry
\* fails at that call, keeps the first payload and does not count.
C5_DuplicateRegistrationRejected ==
    [][ IsAdd(call') /\ call'.rank \in DictKeys(requests) =>
            /\ call'.exc # "none"
            /\ requests' = requests
            /\ actor_counter' = actor_counter
      ]_vars

\* C6 as stated: every item of a pending payload stays pending until the
\* step that passes it to the engine in that step's one generation call, and
\* a result stays in the result map, unchanged, until its producer collects
\* it.
C6_NothingDropped ==
    [][ /\ \A i \in DOMAIN requests :
              \/ \E j \in DOMAIN requests' : requests'[j] = requests[i]
              \/ /\ Len(call'.gen) <= 1
                 /\ \A k \in DOMAIN requests[i].val :
                        /\ Len(call'.gen) = 1
                        /\ \E m \in DOMAIN call'.gen[1] :
                               call'.gen[1][m] = requests[i].val[k]
        /\ has_responses =>
              \A p \in DOMAIN responses :
                  \/ /\ call'.op = "get_responses"
                     /\ call'.rank = p
                     /\ call'.ret = responses[p]
                  \/ /\ has_responses'
                     /\ p \in DOMAIN responses'
                     /\ responses'[p] = responses[p]
      ]_vars

\* C7: the registration that completes a round of N distinct ranks leaves
\* the request map empty and the counter zero; a registration that arrives
\* in that state is accepted whatever results are still uncollected (it
\* raises nothing, becomes the only pending entry, or dispatches at once
\* when N = 1, and while pending leaves the uncollected results alone); and
\* the N-th registration of the fresh round dispatches again.
C7_ResetAndNextRound ==
    [][ /\ (NthDistinct =>
                /\ call'.exc = "none"
                /\ requests' = <<>>
                /\ actor_counter' = 0
                /\ has_responses'
                /\ DOMAIN responses' = RoundRanks)
        /\ (IsAdd(call') /\ requests = <<>> /\ actor_counter = 0 =>
                /\ call'.exc = "none"
                /\ IF num_actors = 1
                   THEN /\ requests' = <<>>
                        /\ actor_counter' = 0
                        /\ responses' = [p \in {call'.rank} |->
                                            OutputsOf(call'.arg)]
                   ELSE /\ requests' = <<[key |-> call'.rank,
                                          val |-> call'.arg]>>
                        /\ actor_counter' = 1
                        /\ UNCHANGED <<has_responses, responses>>)
      ]_vars

\* C7 witness: both slices of a dispatched round are still uncollected, and
\* the first registration of the next round has been accepted
C7_Witness ==
    /\ num_actors = 2
    /\ IsAdd(call)
    /\ call.exc = "none"
    /\ actor_counter = 1
    /\ Len(requests) = 1
    /\ has_responses
    /\ Cardinality(DOMAIN responses) = 2

\* C8: get_responses for a rank that has no entry in the result map (no
\* round has dispatched yet, the rank was in no dispatched round, or it has
\* collected already) raises and changes nothing; otherwise it returns the
\* rank's slice and removes that entry and no other, so that the rank has no
\* entry afterwards.
C8_CollectWithoutResultFails ==
    [][ call'.op = "get_responses" =>
            IF ~has_responses \/ call'.rank \notin DOMAIN responses
            THEN /\ call'.exc \in {"AttributeError", "KeyError"}
                 /\ UNCHANGED <<requests, actor_counter, has_responses,
                                responses>>
            ELSE /\ call'.exc = "none"
                 /\ call'.ret = responses[call'.rank]
                 /\ call'.rank \notin DOMAIN responses'
                 /\ DOMAIN responses' = DOMAIN responses \ {call'.rank}
                 /\ \A q \in DOMAIN responses' : responses'[q] = responses[q]
                 /\ UNCHANGED <<requests, actor_counter, has_responses>>
      ]_vars

\* C8 witness: a collect has failed for a rank without a slice while another
\* producer's slice is waiting and a registration is pending
C8_Witness ==
    /\ call.op = "get_responses"
    /\ call.exc = "KeyError"
    /\ call.rank \notin DOMAIN responses
    /\ DOMAIN responses # {}
    /\ requests # <<>>

\* C9: when the N distinct ranks of a round all sent zero items, the step
\* that completes the round makes no call to the engine, gives every rank
\* of the round the empty list, and resets the request map and the counter.
C9_EmptyRoundSkipsGenerate ==
    [][ NthDistinct /\ (\A p \in RoundRanks : RoundPayload(p) = <<>>) =>
            /\ call'.gen = <<>>
            /\ has_responses'
            /\ DOMAIN responses' = RoundRanks
            /\ \A p \in RoundRanks : responses'[p] = <<>>
            /\ requests' = <<>>
            /\ actor_counter' = 0
      ]_vars

\* C9 witness: a producer has collected the empty list of a round of two
\* producers that dispatched without a call to the engine
C9_Witness ==
    /\ num_actors = 2
    /\ call.op = "get_responses"
    /\ call.exc = "none"
    /\ call.ret = <<>>
    /\ requests = <<>>
    /\ \E q \in DOMAIN responses : responses[q] = <<>>

\* C10 as stated: with the results of the N producers of the last round all
\* uncollected, a registration by a rank that is none of them (the (N+1)-th
\* producer of an engine that expects N) fails the assertion.
C10_ExtraRegistrationAsserts ==
    [][ /\ IsAdd(call')
        /\ has_responses
        /\ Cardinality(DOMAIN responses) = num_actors
        /\ requests = <<>>
        /\ call'.rank \notin DOMAIN responses
        => call'.exc = "AssertionError"
      ]_vars

\* C11 as stated: the step that dispatches a round leaves the request map
\* empty and only that round's slices in the result map, and a producer
\* with a registration pending in an undispatched round is never handed a
\* slice (it could only be one of an earlier round).
C11_RoundAtomicForProducer ==
    [][ /\ (NthDistinct =>
                requests' = <<>> /\ DOMAIN responses' = RoundRanks)
        /\ (call'.op = "get_responses" /\ call'.exc = "none" =>
                call'.rank \notin DictKeys(requests))
      ]_vars

\* C12: the first registration of a round takes the first place of the
\* request map and keeps it while later ranks register, and when the round
\* of N distinct ranks dispatches, the rank in the first place gets the
\* slice of the result that starts at offset 0 and is as long as its payload.
C12_FirstArrivalFirstSlice ==
    [][ /\ (/\ IsAdd(call')
            /\ requests = <<>>
            /\ actor_counter = 0
            /\ num_actors > 1
            => /\ requests' # <<>>
               /\ requests'[1] = [key |-> call'.rank, val |-> call'.arg])
        /\ (/\ IsAdd(call')
            /\ requests # <<>>
            /\ requests' # <<>>
            /\ call'.rank \notin DictKeys(requests)
            => requests'[1] = requests[1])
        /\ (NthDistinct =>
                responses'[ArrivalOrder[1]] =
                    SubSeq(FullResult, 1, Len(RoundPayload(ArrivalOrder[1]))))
      ]_vars

\* C12 witness: rank 1 registered first with two requests, rank 0 second
\* with one, and rank 1 holds the first two responses of the result
C12_Witness ==
    /\ num_actors = 2
    /\ IsAdd(call)
    /\ call.rank = 0
    /\ call.gen = << <<2, 3, 1>> >>
    /\ has_responses
    /\ DOMAIN responses = {0, 1}
    /\ responses[1] = <<12, 13>>
    /\ responses[0] = <<11>>

\* the aggregator is accumulating: fewer than num_actors registrations are
\* counted, and the request map holds one entry for each
Accumulating ==
    /\ 0 <= actor_counter
    /\ actor_counter < num_actors
    /\ Len(requests) = actor_counter

\* C29: the aggregator starts accumulating, and every call by a producer
\* that has not yet registered in the round (and every get_responses) takes
\* an accumulating aggregator to an accumulating one; the call that counts
\* the num_actors-th registration dispatches and leaves the counter at 0 and
\* the request map empty, the start of the next round.
C29_AccumulatingBetweenCalls ==
    /\ Accumulating
    /\ [][ (Accumulating
            /\ (IsAdd(call') => call'.rank \notin DictKeys(requests)))
           => /\ Accumulating'
              /\ call'.exc \notin {"AssertionError"}
              /\ (IsAdd(call') /\ actor_counter + 1 = num_actors) =>
                     /\ actor_counter' = 0
                     /\ requests' = <<>>
                     /\ has_responses'
         ]_vars

\* after the dispatch of a round of two producers the first registration of
\* the next round is pending
C29_Witness ==
    /\ num_actors = 2
    /\ has_responses
    /\ IsAdd(call)
    /\ call.exc = "none"
    /\ actor_counter = 1
    /\ Len(requests) = 1

(* ======================================================================= *)
(* Part 2: get_advantages_and_returns                                      *)
(* (openrlhf/trainer/ppo_utils/experience_maker.py).                       *)
(*                                                                         *)
(* A batched tensor of shape (batch, response) is a sequence of rows, each *)
(* a sequence of numbers; a packed input is a Python list of 1-D tensors,  *)
(* one per sequence, of any lengths.  The code computes in floating point  *)
(* with + - * only; the model computes the same expressions over the       *)
(* integers, with integer gamma and lambd.                                 *)
(* ======================================================================= *)

\* longest response (rewards.size(1)) of an input
MaxResponse == 2

\* batch sizes, and the numbers rewards, values, gamma and lambd are drawn from
BatchSizes == {1, 2}
RewardVals == {0, 1}
ValueVals == {0, 2}
GammaVals == {1, 2}
LambdVals == {0, 1, 2}

\* action masks of a right-padded batch: in each row k ones, then zeros
PrefixMask(T, k) == [t \in 1 .. T |-> IF t <= k THEN 1 ELSE 0]
ActionMasks(B, T) ==
    {m \in [1 .. B -> [1 .. T -> {0, 1}]] :
        \A b \in 1 .. B : \E k \in 1 .. T : m[b] = PrefixMask(T, k)}

\* the inputs of a call: a batched tensor pair with an action mask or None,
\* or a packed list pair, whose action mask is None
GaeArgs ==
    (UNION {
        [form : {"tensor"},
         values : [1 .. B -> [1 .. T -> ValueVals]],
         rewards : [1 .. B -> [1 .. T -> RewardVals]],
         action_mask : ActionMasks(B, T) \cup {None},
         gamma : GammaVals, lambd : LambdVals] :
        B \in BatchSizes, T \in 1 .. MaxResponse})
    \cup
    (UNION {
        [form : {"list"},
         values : [1 .. B -> UNION {[1 .. T -> ValueVals] :
                                    T \in 1 .. MaxResponse}],
         rewards : [1 .. B -> UNION {[1 .. T -> RewardVals] :
                                     T \in 1 .. MaxResponse}],
         action_mask : {None},
         gamma : GammaVals, lambd : LambdVals] :
        B \in BatchSizes})

\* a packed list pairs each values tensor with a rewards tensor of its length
WellShaped(a) ==
    \A b \in DOMAIN a.values : Len(a.values[b]) = Len(a.rewards[b])

\* action_mask * x, elementwise
MaskTensor(action_mask, x) ==
    [b \in DOMAIN x |-> [t \in DOMAIN x[b] |-> action_mask[b][t] * x[b][t]]]

\* values and rewards after "Mask invalid responses"
Masked(action_mask, x) ==
    IF action_mask # None THEN MaskTensor(action_mask, x) ELSE x

\* the loop "for t in reversed(range(response_length))", from column t down
\* to the first; lastgaelam is one number per row; returns
\* advantages_reversed
RECURSIVE GaeLoop(_, _, _, _, _, _, _)
GaeLoop(values, rewards, gamma, lambd, t, lastgaelam, advantages_reversed) ==
    IF t = 0 THEN advantages_reversed
    ELSE
        LET response_length == Len(rewards[1])
            nextvalues == [b \in DOMAIN values |->
                              IF t < response_length THEN values[b][t + 1]
                              ELSE 0]
            delta == [b \in DOMAIN values |->
                         rewards[b][t] + gamma * nextvalues[b] - values[b][t]]
            lgl == [b \in DOMAIN values |->
                       delta[b] + gamma * lambd * lastgaelam[b]]
        IN  GaeLoop(values, rewards, gamma, lambd, t - 1, lgl,
                    Append(advantages_reversed, lgl))

\* mutant of StackReversed: torch.stack(advantages_reversed, dim=1)
StackReversed_AsAppended(advantages_reversed, B) ==
    [b \in 1 .. B |->
        [t \in DOMAIN advantages_reversed |-> advantages_reversed[t][b]]]

\* torch.stack(advantages_reversed[::-1], dim=1)
StackReversed(advantages_reversed, B) ==
    LET n == Len(advantages_reversed)
    IN  [b \in 1 .. B |->
            [t \in 1 .. n |-> advantages_reversed[n + 1 - t][b]]]

\* mutant of GaeTensor: returns = advantages + values with the values as
\* they were passed in
GaeTensor_UnmaskedReturns(values, rewards, action_mask, gamma, lambd) ==
    LET v == Masked(action_mask, values)
        r == Masked(action_mask, rewards)
        B == Len(values)
        rev == GaeLoop(v, r, gamma, lambd, Len(rewards[1]),
                       [b \in 1 .. B |-> 0], <<>>)
        advantages == StackReversed(rev, B)
    IN  [advantages |-> advantages,
         returns |-> [b \in 1 .. B |->
                         [t \in DOMAIN advantages[b] |->
                             advantages[b][t] + values[b][t]]]]

\* the body of get_advantages_and_returns for a batched tensor
GaeTensor(values, rewards, action_mask, gamma, lambd) ==
    LET v == Masked(action_mask, values)
        r == Masked(action_mask, rewards)
        B == Len(values)
        rev == GaeLoop(v, r, gamma, lambd, Len(rewards[1]),
                       [b \in 1 .. B |-> 0], <<>>)
        advantages == StackReversed(rev, B)
    IN  [advantages |-> advantages,
         returns |-> [b \in 1 .. B |->
                         [t \in DOMAIN advantages[b] |->
                             advantages[b][t] + v[b][t]]]]

\* get_advantages_and_returns: a list is handled one sequence at a time,
\* each as a batch of one row (unsqueeze(0)) whose result row is taken out
\* again (squeeze(0))
get_advantages_and_returns(a) ==
    IF a.form = "list"
    THEN LET one(b) == GaeTensor(<<a.values[b]>>, <<a.rewards[b]>>,
                                 a.action_mask, a.gamma, a.lambd)
         IN  [advantages |-> [b \in DOMAIN a.values |-> one(b).advantages[1]],
              returns |-> [b \in DOMAIN a.values |-> one(b).returns[1]]]
    ELSE GaeTensor(a.values, a.rewards, a.action_mask, a.gamma, a.lambd)

GaeInit ==
    /\ gae_args \in {a \in GaeArgs : WellShaped(a)}
    /\ gae_ret = [done |-> FALSE, advantages |-> None, returns |-> None]
    /\ EngineIdle
    /\ ScoreIdle
    /\ ListIdle
    /\ FnIdle
    /\ FleetIdle

\* the call experience_maker makes for the "gae" estimator
call_get_advantages_and_returns ==
    /\ ~gae_ret.done
    /\ gae_ret' = [done |-> TRUE,
                   advantages |-> get_advantages_and_returns(gae_args).advantages,
                   returns |-> get_advantages_and_returns(gae_args).returns]
    /\ UNCHANGED <<gae_args, engineVars, scoreVars, listVars, fnVars, fleetVars>>

GaeNext == call_get_advantages_and_returns

GaeSpec == GaeInit /\ [][GaeNext]_vars

(* ============== claims about get_advantages_and_returns ================ *)

\* the rewards and values of sequence b with positions outside the action
\* mask zeroed
MaskedRow(x, b) ==
    [t \in DOMAIN x[b] |->
        IF gae_args.action_mask # None
        THEN gae_args.action_mask[b][t] * x[b][t]
        ELSE x[b][t]]

\* the recurrence of generalized advantage estimation on one sequence:
\* delta_t = r_t + gamma * v_{t+1} - v_t with v after the last step 0, and
\* A_t = delta_t + gamma * lambd * A_{t+1} with A after the last step 0
RECURSIVE GaeRecurrence(_, _, _, _, _)
GaeRecurrence(r, v, gamma, lambd, t) ==
    IF t > Len(r) THEN 0
    ELSE (r[t] + gamma * (IF t + 1 > Len(v) THEN 0 ELSE v[t + 1]) - v[t])
         + gamma * lambd * GaeRecurrence(r, v, gamma, lambd, t + 1)

\* C19: for a batched tensor and for a packed list alike, the advantage of
\* every sequence at every timestep is the value of the GAE recurrence on
\* that sequence's masked rewards and values, computed from the last
\* timestep backwards.
C19_AdvantagesAreGae ==
    gae_ret.done =>
        /\ DOMAIN gae_ret.advantages = DOMAIN gae_args.values
        /\ \A b \in DOMAIN gae_args.values :
            /\ DOMAIN gae_ret.advantages[b] = DOMAIN gae_args.values[b]
            /\ \A t \in DOMAIN gae_args.values[b] :
                gae_ret.advantages[b][t] =
                    GaeRecurrence(MaskedRow(gae_args.rewards, b),
                                  MaskedRow(gae_args.values, b),
                                  gae_args.gamma, gae_args.lambd, t)

\* C19 witness: a batch of two rows, the second masked after its first
\* step, gamma 2 and lambd 1; row 1 has deltas (1 + 2*2 - 0, 1 - 2) and so
\* advantages (5 + 2*(-1), -1)
C19_Witness ==
    /\ gae_ret.done
    /\ gae_args.form = "tensor"
    /\ gae_args.gamma = 2
    /\ gae_args.lambd = 1
    /\ gae_args.rewards = << <<1, 1>>, <<1, 1>> >>
    /\ gae_args.values = << <<0, 2>>, <<2, 2>> >>
    /\ gae_args.action_mask = << <<1, 1>>, <<1, 0>> >>
    /\ gae_ret.advantages = << <<3, -1>>, <<-1, 0>> >>

\* C19 witness of the packed form: two sequences of lengths 2 and 1
C19_WitnessPacked ==
    /\ gae_ret.done
    /\ gae_args.form = "list"
    /\ gae_args.gamma = 1
    /\ gae_args.lambd = 2
    /\ gae_args.rewards = << <<0, 1>>, <<1>> >>
    /\ gae_args.values = << <<2, 0>>, <<2>> >>
    /\ gae_ret.advantages = << <<0, 1>>, <<-1>> >>

\* C20: returns minus advantages is, at every position, the value with
\* positions outside the action mask zeroed; and when the masked rewards
\* and values are all zero, advantages and returns are all zero.
C20_ReturnsAreAdvantagesPlusMaskedValues ==
    gae_ret.done =>
        /\ DOMAIN gae_ret.returns = DOMAIN gae_args.values
        /\ \A b \in DOMAIN gae_args.values :
            /\ DOMAIN gae_ret.returns[b] = DOMAIN gae_args.values[b]
            /\ \A t \in DOMAIN gae_args.values[b] :
                gae_ret.returns[b][t] - gae_ret.advantages[b][t] =
                    MaskedRow(gae_args.values, b)[t]
            /\ ((\A t \in DOMAIN gae_args.values[b] :
                    /\ MaskedRow(gae_args.values, b)[t] = 0
                    /\ MaskedRow(gae_args.rewards, b)[t] = 0)
                => \A t \in DOMAIN gae_args.values[b] :
                    /\ gae_ret.advantages[b][t] = 0
                    /\ gae_ret.returns[b][t] = 0)

\* C20 witness: one row whose second position lies outside the mask and
\* carries a value of 2 there; the return at that position is the
\* advantage, 0, plus the masked value, 0
C20_Witness ==
    /\ gae_ret.done
    /\ gae_args.form = "tensor"
    /\ gae_args.gamma = 1
    /\ gae_args.lambd = 1
    /\ gae_args.rewards = << <<1, 1>> >>
    /\ gae_args.values = << <<2, 2>> >>
    /\ gae_args.action_mask = << <<1, 0>> >>
    /\ gae_ret.advantages = << <<-1, 0>> >>
    /\ gae_ret.returns = << <<1, 0>> >>

(* ======================================================================= *)
(* Part 3: RemoteExperienceMaker.make_experience, the scoring of one       *)
(* micro-batch.  The maker issues forward calls to its collaborators (Ray  *)
(* actors, or Ray tasks for a remote reward function), which complete in   *)
(* any order; ray.get blocks until every reference it is given is ready.   *)
(* A Ray actor runs its calls in the order they were submitted.  Ring      *)
(* attention is off (strategy.ring_attn_group is None).                    *)
(* ======================================================================= *)

\* most reward sources (reward models, or remote reward URLs) of a maker
MaxRewards == 2

InitialModel == <<"initial_model", 0>>
Critic == <<"critic", 0>>
Reward(i) == <<"reward", i>>

\* the collaborators of a maker
Collaborators(mk) == {InitialModel, Critic} \cup {Reward(i) : i \in 1 .. mk.num_rewards}

\* what a forward call of collaborator c returns
Result(c) == <<"result", c[1], c[2]>>

\* the reference ray.put(None) returns
PutNone == <<"put", 0>>

\* the object a reference resolves to
Resolve(ref) == IF ref = PutNone THEN None ELSE Result(ref)

\* whether a reference is ready
Ready(ref) == IF ref = PutNone THEN TRUE ELSE sc_calls[ref].fwd = "done"

\* mutant of RayGet: the values in the order they became ready
RayGet_ByCompletion(refs) ==
    LET puts == SelectSeq(refs, LAMBDA x : x = PutNone)
        ready == puts \o sc_order
    IN  [i \in DOMAIN refs |-> Resolve(ready[i])]

\* ray.get(refs) of a list whose references are all ready: one value per
\* reference, in the order of the list
RayGet(refs) == [i \in DOMAIN refs |-> Resolve(refs[i])]

Makers ==
    [cls : {"NaiveExperienceMaker", "RemoteExperienceMaker"},
     initial_model : BOOLEAN, critic : BOOLEAN, remote_rm_url : BOOLEAN,
     num_rewards : 1 .. MaxRewards, packing_samples : BOOLEAN,
     colocate_actor_ref : BOOLEAN, colocate_critic_reward : BOOLEAN,
     colocate_all_models : BOOLEAN]

ScoreInit ==
    /\ maker \in Makers
    /\ sc_pc = "eval"
    /\ sc_calls = [c \in Collaborators(maker) |-> [fwd |-> "none", rel |-> "none"]]
    /\ sc_order = <<>>
    /\ base_action_log_probs_ref = None
    /\ value_ref = None
    /\ r_refs = <<>>
    /\ ref_values = [done |-> FALSE, list |-> <<>>]
    /\ actor_mode = "train"
    /\ critic_mode = "train"
    /\ EngineIdle
    /\ GaeIdle
    /\ ListIdle
    /\ FnIdle
    /\ FleetIdle

scoreFrame ==
    <<maker, critic_mode, engineVars, gaeVars, listVars, fnVars, fleetVars>>

\* c.forward.remote(...)
IssueForward(c) == sc_calls' = [sc_calls EXCEPT ![c].fwd = "pending"]

\* c.empty_cache.remote()
IssueEmptyCache(c) == sc_calls' = [sc_calls EXCEPT ![c].rel = "pending"]

\* self.actor.eval()
actor_eval ==
    /\ maker.cls = "RemoteExperienceMaker"
    /\ sc_pc = "eval"
    /\ actor_mode' = "eval"
    /\ sc_pc' = "ref"
    /\ UNCHANGED <<sc_calls, sc_order, base_action_log_probs_ref, value_ref,
                   r_refs, ref_values, scoreFrame>>

\* "init log probs": the reference model's forward, or the None placeholder
issue_reference ==
    /\ sc_pc = "ref"
    /\ IF maker.initial_model
       THEN /\ IssueForward(InitialModel)
            /\ base_action_log_probs_ref' = InitialModel
            /\ sc_pc' = IF maker.colocate_actor_ref \/ maker.colocate_all_models
                        THEN "ref_get" ELSE "critic"
       ELSE /\ base_action_log_probs_ref' = PutNone
            /\ sc_pc' = "critic"
            /\ UNCHANGED sc_calls
    /\ UNCHANGED <<sc_order, value_ref, r_refs, ref_values, actor_mode,
                   scoreFrame>>

\* ray.get([base_action_log_probs_ref]) and the submission of
\* initial_model.empty_cache
join_reference ==
    /\ sc_pc = "ref_get"
    /\ Ready(base_action_log_probs_ref)
    /\ IssueEmptyCache(InitialModel)
    /\ sc_pc' = "ref_empty"
    /\ UNCHANGED <<sc_order, base_action_log_probs_ref, value_ref, r_refs,
                   ref_values, actor_mode, scoreFrame>>

\* ray.get([self.initial_model.empty_cache.remote()]) returns
released_reference ==
    /\ sc_pc = "ref_empty"
    /\ sc_calls[InitialModel].rel = "done"
    /\ sc_pc' = "critic"
    /\ UNCHANGED <<sc_calls, sc_order, base_action_log_probs_ref, value_ref,
                   r_refs, ref_values, actor_mode, scoreFrame>>

\* "values": the critic's forward, or the None placeholder
issue_critic ==
    /\ sc_pc = "critic"
    /\ IF maker.critic
       THEN /\ IssueForward(Critic)
            /\ value_ref' = Critic
            /\ sc_pc' = IF maker.colocate_critic_reward \/ maker.colocate_all_models
                        THEN "critic_get" ELSE "rewards"
       ELSE /\ value_ref' = PutNone
            /\ sc_pc' = "rewards"
            /\ UNCHANGED sc_calls
    /\ UNCHANGED <<sc_order, base_action_log_probs_ref, r_refs, ref_values,
                   actor_mode, scoreFrame>>

\* ray.get([value_ref]) and the submission of critic.empty_cache
join_critic ==
    /\ sc_pc = "critic_get"
    /\ Ready(value_ref)
    /\ IssueEmptyCache(Critic)
    /\ sc_pc' = "critic_empty"
    /\ UNCHANGED <<sc_order, base_action_log_probs_ref, value_ref, r_refs,
                   ref_values, actor_mode, scoreFrame>>

\* ray.get([self.critic.empty_cache.remote()]) returns
released_critic ==
    /\ sc_pc = "critic_empty"
    /\ sc_calls[Critic].rel = "done"
    /\ sc_pc' = "rewards"
    /\ UNCHANGED <<sc_calls, sc_order, base_action_log_probs_ref, value_ref,
                   r_refs, ref_values, actor_mode, scoreFrame>>

\* one turn of "for rm in self.reward_model" or "for rm in
\* self.remote_rm_url": the next reward source's call is submitted and its
\* reference appended to r_refs; after the last one the loop is left
issue_reward ==
    /\ sc_pc = "rewards"
    /\ LET i == Len(r_refs) + 1
       IN  /\ IssueForward(Reward(i))
           /\ r_refs' = Append(r_refs, Reward(i))
           /\ sc_pc' = IF i < maker.num_rewards THEN "rewards"
                       ELSE IF maker.colocate_all_models /\ ~maker.remote_rm_url
                       THEN "rewards_get"
                       ELSE "actor"
    /\ UNCHANGED <<sc_order, base_action_log_probs_ref, value_ref, ref_values,
                   actor_mode, scoreFrame>>

\* ray.get(r_refs) and the submission of reward_model[0].empty_cache
join_rewards ==
    /\ sc_pc = "rewards_get"
    /\ \A i \in DOMAIN r_refs : Ready(r_refs[i])
    /\ IssueEmptyCache(Reward(1))
    /\ sc_pc' = "rewards_empty"
    /\ UNCHANGED <<sc_order, base_action_log_probs_ref, value_ref, r_refs,
                   ref_values, actor_mode, scoreFrame>>

\* ray.get([self.reward_model[0].empty_cache.remote()]) returns
released_reward ==
    /\ sc_pc = "rewards_empty"
    /\ sc_calls[Reward(1)].rel = "done"
    /\ sc_pc' = "actor"
    /\ UNCHANGED <<sc_calls, sc_order, base_action_log_probs_ref, value_ref,
                   r_refs, ref_values, actor_mode, scoreFrame>>

\* action_log_probs = self.actor(...): the policy's own forward, run locally
actor_forward ==
    /\ sc_pc = "actor"
    /\ sc_pc' = "get"
    /\ UNCHANGED <<sc_calls, sc_order, base_action_log_probs_ref, value_ref,
                   r_refs, ref_values, actor_mode, scoreFrame>>

\* ref_values = ray.get([base_action_log_probs_ref, value_ref] + r_refs)
final_join ==
    /\ sc_pc = "get"
    /\ LET refs == <<base_action_log_probs_ref, value_ref>> \o r_refs
       IN  /\ \A i \in DOMAIN refs : Ready(refs[i])
           /\ ref_values' = [done |-> TRUE, list |-> RayGet(refs)]
    /\ sc_pc' = "late"
    /\ UNCHANGED <<sc_calls, sc_order, base_action_log_probs_ref, value_ref,
                   r_refs, actor_mode, scoreFrame>>

\* "if args.colocate_critic_reward and not self.remote_rm_url": the
\* submission of reward_model[0].empty_cache after the join
late_release ==
    /\ sc_pc = "late"
    /\ IF maker.colocate_critic_reward /\ ~maker.remote_rm_url
       THEN /\ IssueEmptyCache(Reward(1))
            /\ sc_pc' = "late_empty"
       ELSE /\ sc_pc' = "build"
            /\ UNCHANGED sc_calls
    /\ UNCHANGED <<sc_order, base_action_log_probs_ref, value_ref, r_refs,
                   ref_values, actor_mode, scoreFrame>>

\* that ray.get returns
late_released ==
    /\ sc_pc = "late_empty"
    /\ sc_calls[Reward(1)].rel = "done"
    /\ sc_pc' = "build"
    /\ UNCHANGED <<sc_calls, sc_order, base_action_log_probs_ref, value_ref,
                   r_refs, ref_values, actor_mode, scoreFrame>>

\* the rest of the method: kl, the unpacking, Experience(...), and
\* self.actor.train().  ref_log_probs is assigned only on the packed path,
\* so Experience(..., ref_log_probs, ...) raises UnboundLocalError without
\* packing_samples, before self.actor.train()
build_experience ==
    /\ sc_pc = "build"
    /\ IF maker.packing_samples
       THEN /\ actor_mode' = "train"
            /\ sc_pc' = "returned"
       ELSE /\ sc_pc' = "UnboundLocalError"
            /\ UNCHANGED actor_mode
    /\ UNCHANGED <<sc_calls, sc_order, base_action_log_probs_ref, value_ref,
                   r_refs, ref_values, scoreFrame>>

\* the frame of a step of NaiveExperienceMaker.make_experience, whose models
\* are modules of the maker's own process
naiveFrame ==
    <<maker, sc_calls, sc_order, base_action_log_probs_ref, value_ref, r_refs,
      ref_values, engineVars, gaeVars, listVars, fnVars, fleetVars>>

\* NaiveExperienceMaker.make_experience: self.actor.eval(),
\* self.initial_model.eval(), and the same for the reward model and the
\* critic where the maker has them
naive_eval ==
    /\ maker.cls = "NaiveExperienceMaker"
    /\ sc_pc = "eval"
    /\ actor_mode' = "eval"
    /\ critic_mode' = IF maker.critic THEN "eval" ELSE critic_mode
    /\ sc_pc' = "naive_forward"
    /\ UNCHANGED naiveFrame

\* the forward passes of the actor, the initial model, the critic and the
\* reward model (or the remote reward function), one after the other in
\* the maker's own process, then kl and info
naive_forward ==
    /\ sc_pc = "naive_forward"
    /\ sc_pc' = "naive_reset"
    /\ UNCHANGED <<actor_mode, critic_mode, naiveFrame>>

\* mutant of naive_reset: only the actor goes back to training mode
naive_reset_ActorOnly ==
    /\ sc_pc = "naive_reset"
    /\ actor_mode' = "train"
    /\ sc_pc' = "returned"
    /\ UNCHANGED <<critic_mode, naiveFrame>>

\* "reset model state": self.actor.train(), self.critic.train() where the
\* maker has a critic, then return Experience(...)
naive_reset ==
    /\ sc_pc = "naive_reset"
    /\ actor_mode' = "train"
    /\ critic_mode' = IF maker.critic THEN "train" ELSE critic_mode
    /\ sc_pc' = "returned"
    /\ UNCHANGED naiveFrame

\* a collaborator finishes its forward call
complete_forward(c) ==
    /\ sc_calls[c].fwd = "pending"
    /\ sc_calls' = [sc_calls EXCEPT ![c].fwd = "done"]
    /\ sc_order' = Append(sc_order, c)
    /\ UNCHANGED <<sc_pc, base_action_log_probs_ref, value_ref, r_refs,
                   ref_values, actor_mode, scoreFrame>>

\* a collaborator finishes its empty_cache call, after its forward
complete_empty_cache(c) ==
    /\ sc_calls[c].rel = "pending"
    /\ sc_calls[c].fwd # "pending"
    /\ sc_calls' = [sc_calls EXCEPT ![c].rel = "done"]
    /\ UNCHANGED <<sc_pc, sc_order, base_action_log_probs_ref, value_ref,
                   r_refs, ref_values, actor_mode, scoreFrame>>

ScoreNext ==
    \/ actor_eval
    \/ issue_reference
    \/ join_reference
    \/ released_reference
    \/ issue_critic
    \/ join_critic
    \/ released_critic
    \/ issue_reward
    \/ join_rewards
    \/ released_reward
    \/ actor_forward
    \/ final_join
    \/ late_release
    \/ late_released
    \/ build_experience
    \/ naive_eval
    \/ naive_forward
    \/ naive_reset
    \/ \E c \in Collaborators(maker) : complete_forward(c)
    \/ \E c \in Collaborators(maker) : complete_empty_cache(c)

ScoreSpec == ScoreInit /\ [][ScoreNext]_vars

(* ====================== claims about make_experience =================== *)

\* C13: what the final join returns is bound by position: first the
\* reference model's output or None when there is no reference model, then
\* the critic's output or None when there is no critic, then the outputs
\* of the reward sources in the order their calls were issued, whatever
\* the order the calls completed in.
C13_JoinIsPositional ==
    ref_values.done =>
        /\ Len(ref_values.list) = 2 + maker.num_rewards
        /\ ref_values.list[1] =
              (IF maker.initial_model THEN Result(InitialModel) ELSE None)
        /\ ref_values.list[2] =
              (IF maker.critic THEN Result(Critic) ELSE None)
        /\ \A i \in 1 .. maker.num_rewards :
              ref_values.list[2 + i] = Result(Reward(i))

\* C13 witness: the calls completed in the reverse of the order they were
\* issued in, and the join has returned
C13_Witness ==
    /\ ref_values.done
    /\ maker.initial_model
    /\ maker.critic
    /\ maker.num_rewards = 2
    /\ sc_order = <<Reward(2), Reward(1), Critic, InitialModel>>
    /\ ref_values.list = <<Result(InitialModel), Result(Critic),
                           Result(Reward(1)), Result(Reward(2))>>

\* C13 witness of the placeholders: no reference model and no critic
C13_WitnessPlaceholders ==
    /\ ref_values.done
    /\ ~maker.initial_model
    /\ ~maker.critic
    /\ maker.num_rewards = 2
    /\ sc_order = <<Reward(2), Reward(1)>>
    /\ ref_values.list = <<None, None, Result(Reward(1)), Result(Reward(2))>>

\* the collaborators the maker's flags colocate: the reference model under
\* colocate_actor_ref, the critic and the local reward models under
\* colocate_critic_reward, all of them under colocate_all_models
Colocated(c) ==
    \/ /\ c = InitialModel
       /\ maker.colocate_actor_ref \/ maker.colocate_all_models
    \/ /\ c = Critic
       /\ maker.colocate_critic_reward \/ maker.colocate_all_models
    \/ /\ c[1] = "reward"
       /\ ~maker.remote_rm_url
       /\ maker.colocate_critic_reward \/ maker.colocate_all_models
\* C14 as stated: whenever a colocated collaborator is invoked, and
\* whenever the policy's own forward starts, every colocated collaborator
\* invoked before has had its forward call joined (it is complete) and its
\* empty_cache call completed.
C14_ColocatedReleasedBeforeNext ==
    [][ (\/ \E d \in Collaborators(maker) :
               /\ Colocated(d)
               /\ sc_calls[d].fwd = "none"
               /\ sc_calls'[d].fwd = "pending"
         \/ sc_pc = "actor" /\ sc_pc' = "get")
        => \A c \in Collaborators(maker) :
              Colocated(c) /\ sc_calls[c].fwd # "none" =>
                  sc_calls[c].fwd = "done" /\ sc_calls[c].rel = "done"
      ]_vars

\* a step that issues a scoring call to a collaborator, or runs the forward
\* passes of the maker's own process
ScoringStep ==
    \/ \E c \in Collaborators(maker) :
           sc_calls[c].fwd = "none" /\ sc_calls'[c].fwd = "pending"
    \/ sc_pc = "actor" /\ sc_pc' = "get"
    \/ sc_pc = "naive_forward" /\ sc_pc' = "naive_reset"

\* C37: in both make_experience implementations the actor is in eval mode
\* when any scoring call is issued and during its own forward, and it is in
\* training mode whenever make_experience has returned an Experience; the
\* critic a NaiveExperienceMaker holds is back in training mode as well.
C37_EvalWhileScoringTrainOnReturn ==
    [][ /\ ScoringStep => actor_mode = "eval" /\ actor_mode' = "eval"
        /\ sc_pc' = "returned" =>
              /\ actor_mode' = "train"
              /\ maker.cls = "NaiveExperienceMaker" /\ maker.critic =>
                    critic_mode' = "train"
      ]_vars

\* C37 witness: a NaiveExperienceMaker with a critic has returned its
\* Experience, actor and critic in training mode
C37_Witness ==
    /\ maker.cls = "NaiveExperienceMaker"
    /\ maker.critic
    /\ sc_pc = "returned"
    /\ actor_mode = "train"
    /\ critic_mode = "train"

\* C37 witness of the remote maker: every call has been joined and the
\* Experience returned, the actor in training mode
C37_WitnessRemote ==
    /\ maker.cls = "RemoteExperienceMaker"
    /\ ref_values.done
    /\ sc_pc = "returned"
    /\ actor_mode = "train"

\* C39 as stated: RemoteExperienceMaker.make_experience returns an
\* Experience for samples in either representation; on the batched path
\* and on the packed path alike every value passed to the Experience
\* constructor has been assigned before it is used.
C39_ExperienceOnEitherPath ==
    maker.cls = "RemoteExperienceMaker" => sc_pc # "UnboundLocalError"

(* ======================================================================= *)
(* Part 4: make_experience_list on every trainer rank.  The maker is a     *)
(* RemoteExperienceMaker with vLLM engines, whose make_experience_list     *)
(* wraps NaiveExperienceMaker.make_experience_list; ring attention is off. *)
(* Tensors are left out: an experience is the record of which of its       *)
(* fields are populated and by what, and a reward is the name of the       *)
(* shaping it went through.  torch.distributed.barrier() lets a rank go on *)
(* once every rank has entered it.                                         *)
(* ======================================================================= *)

\* trainer ranks (torch.distributed world size)
WorldSize == 2

\* largest n_samples_per_prompt
MaxSamples == 2

\* most micro-batches (entries of samples_list) a rank scores
MaxMicro == 2

TrainerRanks == 1 .. WorldSize

\* the estimators the advantage loop knows, and one it does not
SupportedEstimators == {"gae", "reinforce", "rloo", "reinforce++", "group_norm"}
Estimators == SupportedEstimators \cup {"unknown"}

\* the places of make_experience_list in program order; an exception is
\* raised only by the scoring, the shaping or the advantage loop
PcIndex(p) ==
    CASE p = "start" -> 0
      [] p = "wake_barrier" -> 1
      [] p = "generate" -> 2
      [] p = "gen_barrier" -> 3
      [] p = "collect" -> 4
      [] p = "sleep" -> 5
      [] p = "barrier" -> 6
      [] p = "score" -> 7
      [] p = "process" -> 8
      [] p = "advantage" -> 9
      [] p = "append" -> 10
      [] p = "returned" -> 11
      [] p = "raised" -> 12

\* torch.distributed.barrier() entered at place p returns: every rank has
\* entered it
BarrierOpen(p) == \A q \in TrainerRanks : PcIndex(pc[q]) >= PcIndex(p)

\* the Experience make_experience builds: advantages and returns None, kl
\* set, and the info dict of the packed path with dump_infos added
NewExperience ==
    [advantages |-> "None", returns |-> "None", kl |-> "kl", merged |-> 1,
     info |-> {"kl", "reward", "response_length", "total_length",
               "num_actions", "dump/rewards"}]

\* sum(experiences): Experience.__add__ keeps the keys of the left operand's
\* info and concatenates field by field, None when either side is None
RECURSIVE SumExperiences(_)
SumExperiences(exps) ==
    IF Len(exps) = 1 THEN exps[1]
    ELSE LET l == SumExperiences(SubSeq(exps, 1, Len(exps) - 1))
             r == exps[Len(exps)]
         IN  [advantages |-> IF l.advantages = "None" \/ r.advantages = "None"
                             THEN "None" ELSE l.advantages,
              returns |-> IF l.returns = "None" \/ r.returns = "None"
                          THEN "None" ELSE l.returns,
              kl |-> IF l.kl = "None" \/ r.kl = "None" THEN "None" ELSE l.kl,
              merged |-> l.merged + r.merged,
              info |-> l.info]

\* (rewards.sum(-1, keepdim=True) - rewards) / (n_samples_per_prompt - 1):
\* a torch division, which by zero gives nan and raises nothing
RlooBaseline(n) == IF n - 1 = 0 THEN "nan" ELSE "mean_of_others"

\* rewards - baseline
RlooReward(n) == IF RlooBaseline(n) = "nan" THEN "nan" ELSE "rloo"

\* mutant of process_experiences: "group_norm" takes the default branch
process_experiences_NoMerge(exps, a) ==
    IF a.advantage_estimator = "rloo"
    THEN [experiences |->
              [i \in DOMAIN exps |->
                  [exps[i] EXCEPT !.info = @ \cup {"acc_info"}]],
          rewards |-> [i \in DOMAIN exps |-> RlooReward(a.n_samples_per_prompt)]]
    ELSE [experiences |-> exps,
          rewards |-> [i \in DOMAIN exps |-> "raw"]]

\* process_experiences: the experiences and the rewards it returns
process_experiences(exps, a) ==
    IF a.advantage_estimator = "rloo"
    THEN [experiences |->
              [i \in DOMAIN exps |->
                  [exps[i] EXCEPT !.info = @ \cup {"acc_info"}]],
          rewards |-> [i \in DOMAIN exps |-> RlooReward(a.n_samples_per_prompt)]]
    ELSE IF a.advantage_estimator = "group_norm"
    THEN [experiences |-> <<SumExperiences(exps)>>,
          rewards |-> <<"raw">>]
    ELSE [experiences |-> exps,
          rewards |-> [i \in DOMAIN exps |-> "raw"]]

\* compute_reward: the KL penalty added to a reward; nan stays nan
ComputeReward(reward) == IF reward = "nan" THEN "nan" ELSE "kl_penalized"

\* mutant of ShapeReward: compute_reward is skipped for a reward that has
\* been shaped already
ShapeReward_Exclusive(reward, a) ==
    IF reward \in {"rloo", "nan"} THEN <<"baseline">>
    ELSE IF a.advantage_estimator \in {"group_norm", "reinforce++"}
    THEN <<"group_norm">>
    ELSE <<"compute_reward">>

\* the shaping steps the reward of one turn of the advantage loop has gone
\* through when the estimator is given it: the leave-one-out baseline in
\* process_experiences, then in the loop the group normalisation under "if
\* self.advantage_estimator in ["group_norm", "reinforce++"]" and
\* compute_reward under "if self.advantage_estimator not in ["group_norm"]"
ShapeReward(reward, a) ==
    (IF reward \in {"rloo", "nan"} THEN <<"baseline">> ELSE <<>>)
    \o (IF a.advantage_estimator \in {"group_norm", "reinforce++"}
        THEN <<"group_norm">> ELSE <<>>)
    \o (IF a.advantage_estimator \notin {"group_norm"}
        THEN <<"compute_reward">> ELSE <<>>)

\* the info keys the group normalisation of the advantage loop sets
GroupNormInfo ==
    {"acc", "reward", "length_reward", "label_reward", "reward_std",
     "completion_ratio", "completion_length"}

\* mutant of AdvantageStep: info["num_actions"] is not deleted
AdvantageStep_KeepsNumActions(e, reward, a) ==
    LET est == a.advantage_estimator
        grouped == est \in {"group_norm", "reinforce++"}
    IN  IF grouped /\ ~(a.n_samples_per_prompt > 1)
        THEN [exc |-> "AssertionError", experience |-> e]
        ELSE IF est \notin SupportedEstimators
        THEN [exc |-> "Exception", experience |-> e]
        ELSE [exc |-> "none",
              experience |->
                  [advantages |-> IF est = "gae"
                                  THEN "get_advantages_and_returns"
                                  ELSE "deepcopy(returns)",
                   returns |-> IF est = "gae"
                               THEN "get_advantages_and_returns"
                               ELSE IF est = "group_norm"
                               THEN "ones_like * reward"
                               ELSE "get_cumulative_returns",
                   kl |-> "None",
                   merged |-> e.merged,
                   info |-> (e.info
                             \cup (IF grouped THEN GroupNormInfo ELSE {})
                             \cup {"return"})]]

\* one turn of the loop "for experience, reward in zip(experiences,
\* rewards)": the exception it raises, or the experience as it leaves it
AdvantageStep(e, reward, a) ==
    LET est == a.advantage_estimator
        grouped == est \in {"group_norm", "reinforce++"}
    IN  IF grouped /\ ~(a.n_samples_per_prompt > 1)
        THEN [exc |-> "AssertionError", experience |-> e]
        ELSE IF est \notin SupportedEstimators
        THEN [exc |-> "Exception", experience |-> e]
        ELSE [exc |-> "none",
              experience |->
                  [advantages |-> IF est = "gae"
                                  THEN "get_advantages_and_returns"
                                  ELSE "deepcopy(returns)",
                   returns |-> IF est = "gae"
                               THEN "get_advantages_and_returns"
                               ELSE IF est = "group_norm"
                               THEN "ones_like * reward"
                               ELSE "get_cumulative_returns",
                   kl |-> "None",
                   merged |-> e.merged,
                   info |-> ((e.info
                              \cup (IF grouped THEN GroupNormInfo ELSE {})
                              \cup {"return"}) \ {"num_actions"})]]

ListArgs ==
    [advantage_estimator : Estimators,
     n_samples_per_prompt : 1 .. MaxSamples,
     num_micro : 1 .. MaxMicro,
     vllm_enable_sleep : BOOLEAN,
     packing_samples : BOOLEAN,
     critic : BOOLEAN]

ListInit ==
    /\ args \in ListArgs
    /\ pc = [r \in TrainerRanks |-> "start"]
    /\ err = [r \in TrainerRanks |-> "none"]
    /\ experiences = [r \in TrainerRanks |-> <<>>]
    /\ rewards_list = [r \in TrainerRanks |-> <<>>]
    /\ loop_i = [r \in TrainerRanks |-> 0]
    /\ loop_reward = [r \in TrainerRanks |-> <<>>]
    /\ remote_work = [r \in TrainerRanks |->
                         [registered |-> 0, scored |-> 0, appended |-> 0]]
    /\ EngineIdle
    /\ GaeIdle
    /\ ScoreIdle
    /\ FnIdle
    /\ FleetIdle

listFrame == <<args, engineVars, gaeVars, scoreVars, fnVars, fleetVars>>

\* RemoteExperienceMaker.make_experience_list up to the wake-up barrier
wake_up(r) ==
    /\ pc[r] = "start"
    /\ pc' = [pc EXCEPT ![r] = IF args.vllm_enable_sleep
                               THEN "wake_barrier" ELSE "generate"]
    /\ UNCHANGED <<err, experiences, rewards_list, loop_i, remote_work,
                   loop_reward, listFrame>>

\* the barrier after wake_up returns
pass_wake_barrier(r) ==
    /\ pc[r] = "wake_barrier"
    /\ BarrierOpen("wake_barrier")
    /\ pc' = [pc EXCEPT ![r] = "generate"]
    /\ UNCHANGED <<err, experiences, rewards_list, loop_i, remote_work,
                   loop_reward, listFrame>>

\* generate_samples, _generate_vllm up to ray.get(refs): the rank's
\* requests are registered with its engine
register_requests(r) ==
    /\ pc[r] = "generate"
    /\ remote_work' = [remote_work EXCEPT ![r].registered = @ + 1]
    /\ pc' = [pc EXCEPT ![r] = "gen_barrier"]
    /\ UNCHANGED <<err, experiences, rewards_list, loop_i, loop_reward,
                   listFrame>>

\* the barrier "Make sure all requests are sent" returns
pass_gen_barrier(r) ==
    /\ pc[r] = "gen_barrier"
    /\ BarrierOpen("gen_barrier")
    /\ pc' = [pc EXCEPT ![r] = "collect"]
    /\ UNCHANGED <<err, experiences, rewards_list, loop_i, remote_work,
                   loop_reward, listFrame>>

\* get_responses and the building of samples_list: generate_samples returns
collect_samples(r) ==
    /\ pc[r] = "collect"
    /\ pc' = [pc EXCEPT ![r] = "sleep"]
    /\ UNCHANGED <<err, experiences, rewards_list, loop_i, remote_work,
                   loop_reward, listFrame>>

\* "vLLM offload when vllm_enable_sleep", then torch.cuda.empty_cache():
\* the rank enters the barrier of make_experience_list
sleep_engines(r) ==
    /\ pc[r] = "sleep"
    /\ pc' = [pc EXCEPT ![r] = "barrier"]
    /\ UNCHANGED <<err, experiences, rewards_list, loop_i, remote_work,
                   loop_reward, listFrame>>

\* mutant of pass_barrier: the rank does not wait for the others
pass_barrier_NoWait(r) ==
    /\ pc[r] = "barrier"
    /\ pc' = [pc EXCEPT ![r] = "score"]
    /\ UNCHANGED <<err, experiences, rewards_list, loop_i, remote_work,
                   loop_reward, listFrame>>

\* torch.distributed.barrier() of make_experience_list returns
pass_barrier(r) ==
    /\ pc[r] = "barrier"
    /\ BarrierOpen("barrier")
    /\ pc' = [pc EXCEPT ![r] = "score"]
    /\ UNCHANGED <<err, experiences, rewards_list, loop_i, remote_work,
                   loop_reward, listFrame>>

\* one turn of the scoring loop: make_experience issues its remote calls
\* and, on the packed path, returns an Experience; without packing_samples
\* it raises UnboundLocalError
score_micro_batch(r) ==
    /\ pc[r] = "score"
    /\ remote_work' = [remote_work EXCEPT ![r].scored = @ + 1]
    /\ IF args.packing_samples
       THEN /\ experiences' = [experiences EXCEPT ![r] = Append(@, NewExperience)]
            /\ pc' = [pc EXCEPT ![r] = IF Len(experiences[r]) + 1 = args.num_micro
                                       THEN "process" ELSE "score"]
            /\ UNCHANGED err
       ELSE /\ pc' = [pc EXCEPT ![r] = "raised"]
            /\ err' = [err EXCEPT ![r] = "UnboundLocalError"]
            /\ UNCHANGED experiences
    /\ UNCHANGED <<rewards_list, loop_i, loop_reward, listFrame>>

\* experiences, rewards = self.process_experiences(experiences)
shape_rewards(r) ==
    /\ pc[r] = "process"
    /\ experiences' = [experiences EXCEPT
                          ![r] = process_experiences(@, args).experiences]
    /\ rewards_list' = [rewards_list EXCEPT
                      ![r] = process_experiences(experiences[r], args).rewards]
    /\ loop_i' = [loop_i EXCEPT ![r] = 1]
    /\ pc' = [pc EXCEPT ![r] = "advantage"]
    /\ UNCHANGED <<err, remote_work,
                   loop_reward, listFrame>>

\* one turn of the advantage loop
compute_advantage(r) ==
    /\ pc[r] = "advantage"
    /\ LET i == loop_i[r]
           step == AdvantageStep(experiences[r][i],
                                 IF args.advantage_estimator = "group_norm"
                                 THEN rewards_list[r][i]
                                 ELSE ComputeReward(rewards_list[r][i]),
                                 args)
       IN  IF step.exc # "none"
           THEN /\ pc' = [pc EXCEPT ![r] = "raised"]
                /\ err' = [err EXCEPT ![r] = step.exc]
                /\ UNCHANGED <<experiences, loop_i, loop_reward>>
           ELSE /\ experiences' = [experiences EXCEPT ![r][i] = step.experience]
                /\ loop_reward' =
                       [loop_reward EXCEPT
                           ![r] = [steps |-> ShapeReward(rewards_list[r][i],
                                                         args),
                                   merged |-> experiences[r][i].merged]]
                /\ loop_i' = [loop_i EXCEPT ![r] = i + 1]
                /\ pc' = [pc EXCEPT ![r] = IF i = Len(experiences[r])
                                           THEN "append" ELSE "advantage"]
                /\ UNCHANGED err
    /\ UNCHANGED <<rewards_list, remote_work, listFrame>>

\* back in RemoteExperienceMaker.make_experience_list: every experience is
\* sent to the critic, if there is one, and the list is returned
return_experiences(r) ==
    /\ pc[r] = "append"
    /\ remote_work' = [remote_work EXCEPT
                          ![r].appended = IF args.critic
                                          THEN Len(experiences[r]) ELSE 0]
    /\ pc' = [pc EXCEPT ![r] = "returned"]
    /\ UNCHANGED <<err, experiences, rewards_list, loop_i, loop_reward,
                   listFrame>>

ListNext ==
    \E r \in TrainerRanks :
        \/ wake_up(r)
        \/ pass_wake_barrier(r)
        \/ register_requests(r)
        \/ pass_gen_barrier(r)
        \/ collect_samples(r)
        \/ sleep_engines(r)
        \/ pass_barrier(r)
        \/ score_micro_batch(r)
        \/ shape_rewards(r)
        \/ compute_advantage(r)
        \/ return_experiences(r)

ListSpec == ListInit /\ [][ListNext]_vars

(* =================== claims about make_experience_list ================= *)

\* the rank has called process_experiences
StartedAdvantage(r) ==
    \/ pc[r] \in {"advantage", "append", "returned"}
    \/ pc[r] = "raised" /\ err[r] \in {"AssertionError", "Exception"}

\* the rank has left the scoring loop
FinishedScoring(q) ==
    \/ pc[q] \in {"process", "advantage", "append", "returned"}
    \/ pc[q] = "raised"

\* C15 as stated: no rank starts the advantage computation
\* (process_experiences and the advantage loop) until every rank has
\* finished scoring all of its micro-batches.
C15_BarrierAfterScoring ==
    \A r \in TrainerRanks : \A q \in TrainerRanks :
        StartedAdvantage(r) => FinishedScoring(q)

\* C15 amended: the barrier of make_experience_list follows generation and
\* precedes scoring.  No rank has issued a scoring call until every rank has
\* registered its requests, collected its samples and entered the barrier.
C15_BarrierBeforeScoring ==
    \A r \in TrainerRanks : \A q \in TrainerRanks :
        (remote_work[r].scored > 0 \/ PcIndex(pc[r]) >= PcIndex("score"))
            => /\ PcIndex(pc[q]) >= PcIndex("barrier")
               /\ remote_work[q].registered = 1

\* C15 witness: rank 1 has scored both of its micro-batches and shaped its
\* rewards; rank 2 has passed generation and has scored nothing yet
C15_Witness ==
    /\ args.num_micro = 2
    /\ pc[1] = "advantage"
    /\ remote_work[1].scored = 2
    /\ pc[2] \in {"barrier", "score"}
    /\ remote_work[2].scored = 0
    /\ remote_work[2].registered = 1

\* C16: every experience of a list make_experience_list has returned has
\* advantages and returns populated, kl None, a "return" entry in info and
\* no "num_actions" entry; a list is returned only for a supported
\* estimator, and it is not empty.
C16_ReturnedExperiencesComplete ==
    \A r \in TrainerRanks :
        pc[r] = "returned" =>
            /\ args.advantage_estimator \in SupportedEstimators
            /\ Len(experiences[r]) >= 1
            /\ \A i \in DOMAIN experiences[r] :
                /\ experiences[r][i].advantages # "None"
                /\ experiences[r][i].returns # "None"
                /\ experiences[r][i].kl = "None"
                /\ "return" \in experiences[r][i].info
                /\ "num_actions" \notin experiences[r][i].info

\* C16 witness: a rank has returned the two experiences of its two
\* micro-batches under rloo, the second one complete
C16_Witness ==
    \E r \in TrainerRanks :
        /\ pc[r] = "returned"
        /\ args.advantage_estimator = "rloo"
        /\ args.n_samples_per_prompt = 2
        /\ Len(experiences[r]) = 2
        /\ experiences[r][2].advantages = "deepcopy(returns)"
        /\ experiences[r][2].returns = "get_cumulative_returns"
        /\ experiences[r][2].kl = "None"
        /\ "return" \in experiences[r][2].info
        /\ "num_actions" \notin experiences[r][2].info

\* C17 as stated: a run that ends in a configuration error (unknown
\* estimator: Exception; n_samples_per_prompt = 1 under a shaping that
\* needs more: AssertionError) has registered no generation request and
\* dispatched no scoring call.
C17_ConfigErrorBeforeRemoteWork ==
    \A r \in TrainerRanks :
        pc[r] = "raised" /\ err[r] \in {"AssertionError", "Exception"} =>
            /\ remote_work[r].registered = 0
            /\ remote_work[r].scored = 0

\* C18 as stated: with advantage_estimator "rloo" and n_samples_per_prompt
\* = 1 no rank gets past process_experiences: no baseline is computed and
\* no rewards come out of it.
C18_RlooNeedsSeveralSamples ==
    (args.advantage_estimator = "rloo" /\ args.n_samples_per_prompt = 1) =>
        \A r \in TrainerRanks :
            /\ rewards_list[r] = <<>>
            /\ pc[r] \notin {"advantage", "append", "returned"}


\* rank r has been through a turn of the advantage loop
ShapedOnce(r) == loop_reward[r] # <<>>

\* the shaping step named was applied to the reward of rank r's last turn
Applied(r, step) ==
    \E k \in DOMAIN loop_reward[r].steps : loop_reward[r].steps[k] = step

C27_WitnessPerMicroBatch ==
    /\ args # None
    /\ args.advantage_estimator = "reinforce++"
    /\ args.num_micro = 2
    /\ ShapedOnce(1)
    /\ loop_i[1] = 3
    /\ Applied(1, "group_norm")
    /\ loop_reward[1].merged = 1

\* C28 as claimed: exactly one of the KL-penalised plain reward, the
\* leave-one-out baseline and the group normalization is applied to the
\* reward of each experience before the estimator runs.
C28_ExactlyOneShaping ==
    \A r \in TrainerRanks :
        ShapedOnce(r) => Len(loop_reward[r].steps) = 1

\* C28 amended: the leave-one-out baseline and the group normalization are
\* never both applied; the KL penalty of compute_reward is applied last
\* under every estimator but "group_norm", alone under "gae" and
\* "reinforce", after the baseline under "rloo" and after the group
\* normalization under "reinforce++".
C28_ShapingComposesWithKlPenalty ==
    \A r \in TrainerRanks :
        ShapedOnce(r) =>
            LET est == args.advantage_estimator
                steps == loop_reward[r].steps
            IN  /\ ~(Applied(r, "baseline") /\ Applied(r, "group_norm"))
                /\ est \in {"gae", "reinforce"} => steps = <<"compute_reward">>
                /\ est = "rloo" => steps = <<"baseline", "compute_reward">>
                /\ est = "reinforce++" =>
                       steps = <<"group_norm", "compute_reward">>
                /\ est = "group_norm" => steps = <<"group_norm">>

\* under "rloo" a reward went through the baseline and then the KL penalty
C28_Witness ==
    /\ args # None
    /\ args.advantage_estimator = "rloo"
    /\ args.n_samples_per_prompt = 2
    /\ ShapedOnce(1)
    /\ loop_reward[1].steps = <<"baseline", "compute_reward">>

(* ======================================================================= *)
(* Part 5: get_cumulative_returns and the returns and advantages of the    *)
(* REINFORCE family of estimators                                          *)
(* (openrlhf/trainer/ppo_utils/experience_maker.py).                       *)
(*                                                                         *)
(* Tensors are as in Part 2.  A field of an experience holds a reference   *)
(* to a tensor: the heap maps object identities to tensors, so that two    *)
(* fields naming one tensor can be told from two fields naming equal       *)
(* tensors.                                                                *)
(* ======================================================================= *)

\* what a later in-place write stores in a cell of a tensor
WriteVals == {-1}

\* the inputs of a call: a batched reward tensor with an action mask or
\* None, or a packed list of reward tensors, whose action mask is None
CumArgs(longest) ==
    (UNION {
        [form : {"tensor"},
         rewards : [1 .. B -> [1 .. T -> RewardVals]],
         action_mask : ActionMasks(B, T) \cup {None},
         gamma : GammaVals] :
        B \in BatchSizes, T \in 1 .. longest})
    \cup
    (UNION {
        [form : {"list"},
         rewards : [1 .. B -> UNION {[1 .. T -> RewardVals] :
                                     T \in 1 .. longest}],
         action_mask : {None},
         gamma : GammaVals] :
        B \in BatchSizes})

\* mutant of CumLoop: the running return is not discounted
RECURSIVE CumLoop_NoDiscount(_, _, _, _, _)
CumLoop_NoDiscount(rewards, gamma, t, cumulative_return, returns) ==
    IF t = 0 THEN returns
    ELSE
        LET cr == [b \in DOMAIN rewards |->
                      rewards[b][t] + cumulative_return[b]]
        IN  CumLoop_NoDiscount(rewards, gamma, t - 1, cr,
                    [b \in DOMAIN returns |-> [returns[b] EXCEPT ![t] = cr[b]]])

\* the loop "for t in reversed(range(response_length))", from column t down
\* to the first; cumulative_return is one number per row, and column t of
\* returns is overwritten with it
RECURSIVE CumLoop(_, _, _, _, _)
CumLoop(rewards, gamma, t, cumulative_return, returns) ==
    IF t = 0 THEN returns
    ELSE
        LET cr == [b \in DOMAIN rewards |->
                      rewards[b][t] + gamma * cumulative_return[b]]
        IN  CumLoop(rewards, gamma, t - 1, cr,
                    [b \in DOMAIN returns |-> [returns[b] EXCEPT ![t] = cr[b]]])

\* the body of get_cumulative_returns for a batched tensor: returns starts
\* as zeros_like(rewards), cumulative_return as zeros(rewards.size(0))
CumTensor(rewards, action_mask, gamma) ==
    LET response_length == Len(rewards[1])
        returns == [b \in DOMAIN rewards |-> [t \in DOMAIN rewards[b] |-> 0]]
        cumulative_return == [b \in DOMAIN rewards |-> 0]
        r == Masked(action_mask, rewards)
    IN  CumLoop(r, gamma, response_length, cumulative_return, returns)

\* get_cumulative_returns: a list is handled one sequence at a time, each
\* as a batch of one row (unsqueeze(0)) whose result row is taken out again
\* (squeeze(0))
get_cumulative_returns(a) ==
    IF a.form = "list"
    THEN [b \in DOMAIN a.rewards |->
             CumTensor(<<a.rewards[b]>>, a.action_mask, a.gamma)[1]]
    ELSE CumTensor(a.rewards, a.action_mask, a.gamma)

\* a tensor newly allocated on heap h: the heap with it, and its identity
Allocate(h, tensor) == [heap |-> Append(h, tensor), ref |-> Len(h) + 1]

\* mutant of Deepcopy: the reference itself is handed back
Deepcopy_SameObject(h, ref) == [heap |-> h, ref |-> ref]

\* copy.deepcopy of the tensor ref names: a new tensor of equal contents
Deepcopy(h, ref) == Allocate(h, h[ref])

CumInit ==
    /\ fn_args \in CumArgs(MaxResponse)
    /\ fn_ret = None
    /\ heap = <<>>
    /\ EngineIdle
    /\ GaeIdle
    /\ ScoreIdle
    /\ ListIdle
    /\ FleetIdle

cumFrame == <<fn_args, engineVars, gaeVars, scoreVars, listVars, fleetVars>>

\* the branch of the advantage loop for "reinforce", "rloo" and
\* "reinforce++": experience.returns = get_cumulative_returns(reward,
\* action_mask, gamma); experience.advantages = deepcopy(experience.returns)
reinforce_returns ==
    /\ fn_ret = None
    /\ LET returns == Allocate(heap, get_cumulative_returns(fn_args))
           advantages == Deepcopy(returns.heap, returns.ref)
       IN  /\ heap' = advantages.heap
           /\ fn_ret' = [returns |-> returns.ref,
                         advantages |-> advantages.ref,
                         written |-> <<>>]
    /\ UNCHANGED cumFrame

\* a consumer of the experience writes one cell of the tensor one of the two
\* fields names, in place
write_in_place ==
    /\ fn_ret # None
    /\ fn_ret.written = <<>>
    /\ \E field \in {"returns", "advantages"}, v \in WriteVals :
       \E b \in DOMAIN heap[fn_ret[field]] :
       \E t \in DOMAIN heap[fn_ret[field]][b] :
          /\ heap' = [heap EXCEPT ![fn_ret[field]][b][t] = v]
          /\ fn_ret' = [fn_ret EXCEPT !.written = <<field>>]
    /\ UNCHANGED cumFrame

CumNext == reinforce_returns \/ write_in_place

CumSpec == CumInit /\ [][CumNext]_vars

(* ================ claims about get_cumulative_returns ================== *)

\* gamma to the power n
RECURSIVE Power(_, _)
Power(gamma, n) == IF n = 0 THEN 1 ELSE gamma * Power(gamma, n - 1)

\* the sum over k from lo to the end of r of gamma^(k - t) * r[k]
RECURSIVE DiscountedSum(_, _, _, _)
DiscountedSum(r, gamma, t, lo) ==
    IF lo > Len(r) THEN 0
    ELSE Power(gamma, lo - t) * r[lo] + DiscountedSum(r, gamma, t, lo + 1)

\* the sum of r[k] over k from t to the end of r
RECURSIVE TailSum(_, _)
TailSum(r, t) == IF t > Len(r) THEN 0 ELSE r[t] + TailSum(r, t + 1)

\* the action mask leaves every reward as it is
AllOnes(a) ==
    \/ a.action_mask = None
    \/ \A b \in DOMAIN a.action_mask :
           \A t \in DOMAIN a.action_mask[b] : a.action_mask[b][t] = 1

\* C21: with an all-ones mask, get_cumulative_returns gives, for every row
\* and every timestep t, the sum over k >= t of gamma^(k-t) * r_k of that
\* row alone; with gamma = 1 that is the reverse cumulative sum of the row.
C21_ReturnsAreDiscountedSums ==
    (fn_ret # None /\ fn_ret.written = <<>>
     /\ AllOnes(fn_args)) =>
        LET returns == heap[fn_ret.returns]
        IN  /\ DOMAIN returns = DOMAIN fn_args.rewards
            /\ \A b \in DOMAIN returns :
                  /\ DOMAIN returns[b] = DOMAIN fn_args.rewards[b]
                  /\ \A t \in DOMAIN returns[b] :
                        /\ returns[b][t] = DiscountedSum(fn_args.rewards[b],
                                                         fn_args.gamma, t, t)
                        /\ fn_args.gamma = 1 =>
                               returns[b][t] = TailSum(fn_args.rewards[b], t)

\* a batch of two rows under an all-ones mask and gamma = 2: each row has
\* its own discounted sums
C21_Witness ==
    /\ fn_ret # None
    /\ fn_ret.written = <<>>
    /\ fn_args.form = "tensor"
    /\ fn_args.gamma = 2
    /\ fn_args.rewards = <<<<1, 1>>, <<0, 1>>>>
    /\ fn_args.action_mask = <<<<1, 1>>, <<1, 1>>>>
    /\ heap[fn_ret.returns] = <<<<3, 1>>, <<2, 1>>>>

\* C22: in the REINFORCE branch returns is the cumulative discounted return
\* of the reward passed in and advantages equals it elementwise; they are
\* two tensors, so after a write to one of them the other still holds the
\* cumulative return.
C22_AdvantagesAreSeparateCopy ==
    fn_ret # None =>
        LET G == get_cumulative_returns(fn_args)
        IN  /\ fn_ret.written = <<>> =>
                /\ heap[fn_ret.returns] = G
                /\ heap[fn_ret.advantages] = heap[fn_ret.returns]
            /\ fn_ret.written = <<"returns">> => heap[fn_ret.advantages] = G
            /\ fn_ret.written = <<"advantages">> => heap[fn_ret.returns] = G

\* returns has been written in place and advantages kept the cumulative
\* return
C22_Witness ==
    /\ fn_ret # None
    /\ fn_ret.written = <<"returns">>
    /\ fn_args.gamma = 2
    /\ heap[fn_ret.returns] = <<<<3, -1>>>>
    /\ heap[fn_ret.advantages] = <<<<3, 1>>>>

(* ======================================================================= *)
(* Part 6: the leave-one-out reward shaping of process_experiences         *)
(* (openrlhf/trainer/ppo_utils/experience_maker.py).                       *)
(*                                                                         *)
(* info["reward"] of an experience is a 1-D tensor, one reward per sample  *)
(* of its micro-batch.  The only division is by n_samples_per_prompt - 1:  *)
(* a quotient is kept as the pair of its numerator and its denominator,    *)
(* so that no rounding is modelled and a zero denominator shows.           *)
(* ======================================================================= *)

\* the rewards a sample can have, the samples of a micro-batch, and the
\* values of n_samples_per_prompt
SampleRewards == {2, 4, 6}
MicroBatchSizes == {1, 2, 3}
SamplesPerPrompt == {1, 2, 3}

\* the rewards of k micro-batches as generation cuts them: m samples in
\* each but the last, which has the l samples that were left
Batches(k, m, l) ==
    {r \in [1 .. k -> UNION {[1 .. j -> SampleRewards] : j \in {m, l}}] :
        /\ \A i \in 1 .. k - 1 : Len(r[i]) = m
        /\ Len(r[k]) = l}

\* the experiences passed in, each by its info["reward"], and the argument
\* n_samples_per_prompt
RlooArgs(most) ==
    UNION {
        [rewards : Batches(k, m, l),
         n_samples_per_prompt : SamplesPerPrompt] :
        <<k, m, l>> \in {t \in (1 .. most) \X MicroBatchSizes \X MicroBatchSizes :
                            t[3] <= t[2]}}

\* torch.cat of a list of 1-D tensors, and Tensor.flatten of a matrix
RECURSIVE Cat(_)
Cat(tensors) ==
    IF tensors = <<>> THEN <<>> ELSE Head(tensors) \o Cat(Tail(tensors))

\* x.reshape(-1, n) of a 1-D tensor whose length n divides
Reshape(x, n) ==
    [i \in 1 .. (Len(x) \div n) |-> [j \in 1 .. n |-> x[(i - 1) * n + j]]]

\* row.sum(-1)
RECURSIVE RowSum(_)
RowSum(row) == IF row = <<>> THEN 0 ELSE Head(row) + RowSum(Tail(row))

\* x / d
Quotient(x, d) == [num |-> x, den |-> d]

\* r - q for a number r and a quotient q; nan stays nan
Minus(r, q) ==
    IF q.den = 0 THEN q ELSE [num |-> r * q.den - q.num, den |-> q.den]

\* mutant of Baseline: the mean of the whole group
Baseline_OfWholeGroup(rewards, n) ==
    [i \in DOMAIN rewards |->
        [j \in DOMAIN rewards[i] |->
            Quotient(RowSum(rewards[i]), n)]]

\* (rewards.sum(-1, keepdim=True) - rewards) / (n_samples_per_prompt - 1)
Baseline(rewards, n) ==
    [i \in DOMAIN rewards |->
        [j \in DOMAIN rewards[i] |->
            Quotient(RowSum(rewards[i]) - rewards[i][j], n - 1)]]

\* rewards - baseline
Shaped(rewards, baseline) ==
    [i \in DOMAIN rewards |->
        [j \in DOMAIN rewards[i] |-> Minus(rewards[i][j], baseline[i][j])]]

\* x.chunk(k): pieces of ceil(len / k) elements, the last one shorter, and
\* fewer than k pieces when they use the tensor up
Chunk(x, k) ==
    LET size == (Len(x) + k - 1) \div k
        pieces == (Len(x) + size - 1) \div size
    IN  [c \in 1 .. pieces |->
            SubSeq(x, (c - 1) * size + 1,
                   IF c * size < Len(x) THEN c * size ELSE Len(x))]

\* the "rloo" branch of process_experiences: the exception it raises (the
\* reshape of a tensor whose length n_samples_per_prompt does not divide),
\* or the acc_info it stores in every experience and the rewards it returns
rloo_rewards(a) ==
    LET n == a.n_samples_per_prompt
        cat == Cat(a.rewards)
        acc_info == [e \in DOMAIN a.rewards |->
                        [j \in DOMAIN a.rewards[e] |->
                            IF a.rewards[e][j] = 1 THEN 1 ELSE 0]]
    IN  IF Len(cat) % n # 0
        THEN [exc |-> "RuntimeError", acc_info |-> acc_info, rewards |-> <<>>]
        ELSE LET rewards == Reshape(cat, n)
                 baseline == Baseline(rewards, n)
             IN  [exc |-> "none", acc_info |-> acc_info,
                  rewards |-> Chunk(Cat(Shaped(rewards, baseline)),
                                    Len(a.rewards))]

RlooInit ==
    /\ fn_args \in RlooArgs(MaxMicro)
    /\ fn_ret = None
    /\ heap = <<>>
    /\ EngineIdle
    /\ GaeIdle
    /\ ScoreIdle
    /\ ListIdle
    /\ FleetIdle

\* experiences, rewards = self.process_experiences(experiences) with
\* advantage_estimator = "rloo"
call_process_experiences ==
    /\ fn_ret = None
    /\ fn_ret' = rloo_rewards(fn_args)
    /\ UNCHANGED <<fn_args, heap, engineVars, gaeVars, scoreVars, listVars,
                   fleetVars>>

RlooNext == call_process_experiences

RlooSpec == RlooInit /\ [][RlooNext]_vars

(* ================ claims about the leave-one-out baseline ============== *)

\* the sum of f over the set S of its arguments
RECURSIVE SumOver(_, _)
SumOver(f, S) ==
    IF S = {} THEN 0
    ELSE LET x == CHOOSE x \in S : TRUE IN f[x] + SumOver(f, S \ {x})

\* the samples of one call in the order they were passed in, the prompt
\* sample g belongs to, and the samples of a prompt
AllSamples == Cat(fn_args.rewards)
PromptOf(g) == (g - 1) \div fn_args.n_samples_per_prompt
GroupOf(p) == {g \in DOMAIN AllSamples : PromptOf(g) = p}

\* C23: for every sample the baseline is the sum of the rewards of the
\* other samples of its prompt over n_samples_per_prompt - 1, and the reward
\* returned for it is its reward minus that baseline; the group [2, 4, 6]
\* gets the baseline [5, 4, 3] and the shaped rewards [-3, 0, 3], and where
\* a prompt has other samples the shaped rewards of the prompt sum to zero.
C23_RlooBaselineIsMeanOfOthers ==
    (fn_ret # None /\ fn_ret.exc = "none") =>
        LET n == fn_args.n_samples_per_prompt
            baseline == Cat(Baseline(Reshape(AllSamples, n), n))
            shaped == Cat(fn_ret.rewards)
            others(g) == GroupOf(PromptOf(g)) \ {g}
        IN  /\ DOMAIN shaped = DOMAIN AllSamples
            /\ \A g \in DOMAIN AllSamples :
                  /\ baseline[g].num = SumOver(AllSamples, others(g))
                  /\ baseline[g].den = Cardinality(others(g))
                  /\ shaped[g].den = baseline[g].den
                  /\ shaped[g].num = AllSamples[g] * baseline[g].den
                                     - baseline[g].num
            /\ \A p \in {PromptOf(g) : g \in DOMAIN AllSamples} :
                  /\ n > 1 =>
                        SumOver([g \in DOMAIN shaped |-> shaped[g].num],
                                GroupOf(p)) = 0
                  /\ (n = 3 /\ [g \in GroupOf(p) |-> AllSamples[g]]
                                  = [g \in GroupOf(p) |-> 2 * (g - p * n)]) =>
                        \A g \in GroupOf(p) :
                           /\ baseline[g].num
                                  = (6 - (g - p * n)) * baseline[g].den
                           /\ shaped[g].num
                                  = (3 * (g - p * n) - 6) * shaped[g].den

\* two micro-batches of three samples, three samples per prompt, the first
\* prompt with the rewards [2, 4, 6]: its shaped rewards are -6/2, 0/2, 6/2
C23_Witness ==
    /\ fn_ret # None
    /\ fn_ret.exc = "none"
    /\ fn_args.n_samples_per_prompt = 3
    /\ fn_args.rewards = <<<<2, 4, 6>>, <<6, 6, 2>>>>
    /\ fn_ret.rewards[1] = <<[num |-> -6, den |-> 2], [num |-> 0, den |-> 2],
                             [num |-> 6, den |-> 2]>>
    /\ fn_ret.rewards[2] = <<[num |-> 4, den |-> 2], [num |-> 4, den |-> 2],
                             [num |-> -8, den |-> 2]>>

\* the position among all samples of item j of experience e
FlatIndex(e, j) == Len(Cat(SubSeq(fn_args.rewards, 1, e - 1))) + j

\* C38 as stated: with "rloo" the k-th reward tensor process_experiences
\* returns holds exactly the shaped rewards of the items of the k-th
\* experience, in item order, and is as long as that experience's batch,
\* for every list of micro-batch sizes generation can produce, a smaller
\* last micro-batch included.
C38_RewardsAlignWithExperiences ==
    (fn_ret # None /\ fn_ret.exc = "none") =>
        LET n == fn_args.n_samples_per_prompt
            rewards == Reshape(AllSamples, n)
            shaped == Cat(Shaped(rewards, Baseline(rewards, n)))
        IN  /\ Len(fn_ret.rewards) = Len(fn_args.rewards)
            /\ \A e \in DOMAIN fn_args.rewards :
                  /\ Len(fn_ret.rewards[e]) = Len(fn_args.rewards[e])
                  /\ \A j \in DOMAIN fn_args.rewards[e] :
                        fn_ret.rewards[e][j] = shaped[FlatIndex(e, j)]

(* ======================================================================= *)
(* Part 7: the merge of experiences, Experience.__add__, __radd__ and      *)
(* conditional_cat (openrlhf/trainer/ppo_utils/experience_maker.py).       *)
(*                                                                         *)
(* A tensor or a list of per-item values is the sequence of its items      *)
(* along the batch dimension, tagged with its kind; an item is named by    *)
(* the experience it came from and its position there.  Evaluating an      *)
(* expression gives an outcome: the exception raised, or the value.        *)
(* ======================================================================= *)

\* the numbers of experiences the expressions A, A + B and A + B + C merge
OperandCounts == {1, 2, 3}

\* the fields of Experience that __add__ passes through conditional_cat
TensorFields ==
    {"sequences", "action_log_probs", "values", "returns", "advantages",
     "attention_mask", "action_mask", "kl", "ref_log_probs"}

Tensor(items) == [kind |-> "tensor", items |-> items]
List(items) == [kind |-> "list", items |-> items]

\* the experience make_experience builds from packed samples number id of a
\* list: n sequences; values only with a critic; visual_inputs a dict only
\* with a data processor; info with the keys make_experience sets and the
\* keys the reward functions dump
MakeExperience(id, n, critic, data_processor, dumped) ==
    LET items == [j \in 1 .. n |-> <<id, j>>]
    IN  [fields |->
            [f \in TensorFields |->
                IF f \in {"sequences", "action_log_probs", "kl",
                          "ref_log_probs"}
                THEN List(items)
                ELSE IF f = "values" /\ critic THEN List(items)
                ELSE None],
         info |->
            [k \in {"kl", "reward", "num_actions"} \cup dumped |->
                IF k \in {"kl", "reward"} THEN Tensor(items)
                ELSE List(items)],
         visual_inputs |->
            IF data_processor
            THEN [k \in {"pixel_values"} |-> Tensor(items)]
            ELSE None]

\* the lists of experiences an expression is built from
MergeArgs(counts) ==
    UNION {
        {[i \in 1 .. len |->
             MakeExperience(i, n[i], critic[i], data_processor[i],
                            IF dumped[i] THEN {"learn_mask"} ELSE {})] :
            n \in [1 .. len -> BatchSizes],
            critic \in [1 .. len -> BOOLEAN],
            data_processor \in [1 .. len -> BOOLEAN],
            dumped \in [1 .. len -> BOOLEAN]} :
        len \in counts}

Raised(exc) == [exc |-> exc, value |-> None]
Returned(value) == [exc |-> "none", value |-> value]

\* mutant of conditional_cat: the operands are joined in the other order
conditional_cat_Swapped(attr1, attr2) ==
    IF attr1 # None /\ attr2 # None
    THEN IF attr1.kind = "tensor"
         THEN Tensor(attr2.items \o attr1.items)
         ELSE List(attr2.items \o attr1.items)
    ELSE None

\* conditional_cat: torch.cat((x, y), dim=0) of two tensors, x + y of two
\* other values, None if either is None
conditional_cat(attr1, attr2) ==
    IF attr1 # None /\ attr2 # None
    THEN IF attr1.kind = "tensor"
         THEN Tensor(attr1.items \o attr2.items)
         ELSE List(attr1.items \o attr2.items)
    ELSE None

\* Experience.__add__(self, other) for two experiences: the loop over
\* self.info.keys(), the loop over self.visual_inputs.keys(), then the
\* constructor call
Experience_add(self, other) ==
    IF \E k \in DOMAIN self.info : k \notin DOMAIN other.info
    THEN Raised("KeyError")
    ELSE IF self.visual_inputs = None
    THEN Raised("AttributeError")
    ELSE IF other.visual_inputs = None /\ DOMAIN self.visual_inputs # {}
    THEN Raised("TypeError")
    ELSE IF \E k \in DOMAIN self.visual_inputs :
                k \notin DOMAIN other.visual_inputs
    THEN Raised("KeyError")
    ELSE Returned(
            [fields |->
                [f \in TensorFields |->
                    conditional_cat(self.fields[f], other.fields[f])],
             info |->
                [k \in DOMAIN self.info |->
                    conditional_cat(self.info[k], other.info[k])],
             visual_inputs |->
                [k \in DOMAIN self.visual_inputs |->
                    conditional_cat(self.visual_inputs[k],
                                    other.visual_inputs[k])]])

\* x + y where x and y are outcomes of subexpressions, x evaluated first
Plus(x, y) ==
    IF x.exc # "none" THEN x
    ELSE IF y.exc # "none" THEN y
    ELSE Experience_add(x.value, y.value)

\* Experience.__radd__(self, other) with other = 0, the start value of sum
Experience_radd(self) == Returned(self)

\* sum(exps): 0 + exps[1] goes to __radd__, every later + to __add__
RECURSIVE SumList(_)
SumList(exps) ==
    IF Len(exps) = 1 THEN Experience_radd(exps[1])
    ELSE Plus(SumList(SubSeq(exps, 1, Len(exps) - 1)),
              Returned(exps[Len(exps)]))

NotEvaluated == [left |-> None, right |-> None, sum |-> None]

MergeInit ==
    /\ fn_args \in MergeArgs(OperandCounts)
    /\ fn_ret = NotEvaluated
    /\ heap = <<>>
    /\ EngineIdle
    /\ GaeIdle
    /\ ScoreIdle
    /\ ListIdle
    /\ FleetIdle

mergeFrame == <<fn_args, heap, engineVars, gaeVars, scoreVars, listVars,
                fleetVars>>

\* A + B, or (A + B) + C
add_left ==
    /\ Len(fn_args) >= 2
    /\ fn_ret.left = None
    /\ LET ab == Experience_add(fn_args[1], fn_args[2])
       IN  fn_ret' = [fn_ret EXCEPT
                         !.left = IF Len(fn_args) = 2 THEN ab
                                  ELSE Plus(ab, Returned(fn_args[3]))]
    /\ UNCHANGED mergeFrame

\* A + (B + C): B + C is evaluated first
add_right ==
    /\ Len(fn_args) = 3
    /\ fn_ret.right = None
    /\ LET bc == Experience_add(fn_args[2], fn_args[3])
       IN  fn_ret' = [fn_ret EXCEPT
                         !.right = IF bc.exc # "none" THEN bc
                                   ELSE Experience_add(fn_args[1], bc.value)]
    /\ UNCHANGED mergeFrame

\* sum(experiences), as process_experiences calls it
sum_experiences ==
    /\ fn_ret.sum = None
    /\ fn_ret' = [fn_ret EXCEPT !.sum = SumList(fn_args)]
    /\ UNCHANGED mergeFrame

MergeNext == add_left \/ add_right \/ sum_experiences

MergeSpec == MergeInit /\ [][MergeNext]_vars

(* ===================== claims about the merge ========================== *)

\* the values of experience e by name: its tensor fields, its info entries
\* and its visual inputs
Entries(e) ==
    [n \in ({<<"field", f>> : f \in TensorFields}
            \cup {<<"info", k>> : k \in DOMAIN e.info}
            \cup (IF e.visual_inputs = None THEN {<<"visual_inputs">>}
                  ELSE {<<"visual_inputs", k>> :
                           k \in DOMAIN e.visual_inputs})) |->
        IF n[1] = "field" THEN e.fields[n[2]]
        ELSE IF n[1] = "info" THEN e.info[n[2]]
        ELSE IF Len(n) = 1 THEN None
        ELSE e.visual_inputs[n[2]]]

\* every field and key is present in both experiences or absent in both
SamePresence(a, b) ==
    /\ DOMAIN Entries(a) = DOMAIN Entries(b)
    /\ \A n \in DOMAIN Entries(a) :
          (Entries(a)[n] = None) <=> (Entries(b)[n] = None)

\* the state holds the result of A + B
PairMerged ==
    /\ Len(fn_args) = 2
    /\ fn_ret.left # None

\* C24: A + B is an experience in which every field and info entry present
\* in both holds A's items followed by B's, a + b in all, lists as lists,
\* and in which a field absent in both is absent.
C24_MergeConcatenatesOrStaysAbsent ==
    (PairMerged /\ SamePresence(fn_args[1], fn_args[2])) =>
        /\ fn_ret.left.exc = "none"
        /\ LET A == Entries(fn_args[1])
               B == Entries(fn_args[2])
               R == Entries(fn_ret.left.value)
           IN  /\ DOMAIN R = DOMAIN A
               /\ \A n \in DOMAIN A :
                     IF A[n] = None THEN R[n] = None
                     ELSE /\ R[n] # None
                          /\ R[n].kind = A[n].kind
                          /\ R[n].items = A[n].items \o B[n].items
                          /\ Len(R[n].items)
                                 = Len(A[n].items) + Len(B[n].items)

\* C25: when a field or a key is present in one experience and absent in
\* the other, A + B fails.
C25_AbsenceMismatchIsFatal ==
    (PairMerged /\ ~SamePresence(fn_args[1], fn_args[2])) =>
        fn_ret.left.exc # "none"

\* the outcomes agree: both are failures, or both are experiences, equal
\* entry by entry
SameOutcome(x, y) ==
    /\ (x.exc = "none") <=> (y.exc = "none")
    /\ x.exc = "none" =>
          /\ DOMAIN Entries(x.value) = DOMAIN Entries(y.value)
          /\ \A n \in DOMAIN Entries(x.value) :
                Entries(x.value)[n] = Entries(y.value)[n]

\* the items of the experiences of the list, in the order of the list
RECURSIVE ItemsInOrder(_)
ItemsInOrder(exps) ==
    IF exps = <<>> THEN <<>>
    ELSE Head(exps).fields["sequences"].items \o ItemsInOrder(Tail(exps))

\* C26: over experiences with identical info key sets (A + B) + C and
\* A + (B + C) both fail or give the same experience, entry by entry; sum of a list of one
\* experience is that experience, and sum of a longer list is the merge
\* from left to right, with the items in the order of the list.
C26_MergeIsAssociativeWithNeutral ==
    (\A i \in DOMAIN fn_args :
        DOMAIN fn_args[i].info = DOMAIN fn_args[1].info)
    =>  /\ (Len(fn_args) = 3 /\ fn_ret.left # None /\ fn_ret.right # None) =>
               SameOutcome(fn_ret.left, fn_ret.right)
        /\ (Len(fn_args) = 1 /\ fn_ret.sum # None) =>
               fn_ret.sum = Returned(fn_args[1])
        /\ (Len(fn_args) >= 2 /\ fn_ret.sum # None /\ fn_ret.left # None) =>
               /\ SameOutcome(fn_ret.sum, fn_ret.left)
               /\ fn_ret.sum.exc = "none" =>
                      fn_ret.sum.value.fields["sequences"].items
                          = ItemsInOrder(fn_args)

\* three experiences with visual inputs were merged in all three ways, and
\* each way gave the experience with the items of A, then B, then C
C26_Witness ==
    /\ Len(fn_args) = 3
    /\ fn_ret.left # None
    /\ fn_ret.right # None
    /\ fn_ret.sum # None
    /\ fn_ret.left.exc = "none"
    /\ fn_ret.right = fn_ret.left
    /\ fn_ret.sum = fn_ret.left
    /\ fn_ret.sum.value.info["reward"].items
           = <<<<1, 1>>, <<1, 2>>, <<2, 1>>, <<3, 1>>, <<3, 2>>>>

\* one experience was summed: the result is the experience
C26_WitnessNeutral ==
    /\ Len(fn_args) = 1
    /\ fn_ret.sum # None
    /\ fn_ret.sum.value = fn_args[1]

(* ======================================================================= *)
(* Part 8: the rollout of every producer over its engines.                 *)
(* create_vllm_engines (openrlhf/trainer/ray/vllm_engine.py) gives every   *)
(* engine its num_actors and puts it to sleep under vllm_enable_sleep.     *)
(* RemoteExperienceMaker.make_experience_list and _generate_vllm           *)
(* (openrlhf/trainer/ppo_utils/experience_maker.py) have every producer    *)
(* wake the engines, register with its engines, wait at the barrier,       *)
(* collect, put the engines to sleep, wait at the barrier before scoring   *)
(* and score, rollout after rollout.  Engines and producer ranks count      *)
(* from 0.  An engine is a Ray actor: it runs the calls it was sent one at *)
(* a time, the calls of different producers in any order.  Modelled        *)
(* without ring attention.                                                 *)
(* ======================================================================= *)

\* the most engines and the most producers of a deployment, and the most
\* rollouts of a run
MaxEngines == 3
MaxProducers == 2
MaxRounds == 2

\* the prompts a producer is given for a rollout, n_samples_per_prompt and
\* micro_rollout_batch_size
PromptsPerRollout == {1, 2}
RolloutSamples == {1, 2}
MicroRolloutBatchSizes == {1, 3}

\* create_vllm_engines: the num_actors of engine i of num_engines, with
\* num_total_actors producers
ExpectedActors(i, num_engines, num_total_actors) ==
    IF num_engines >= num_total_actors THEN 1
    ELSE (num_total_actors \div num_engines)
         + (IF i < num_total_actors % num_engines THEN 1 ELSE 0)

\* mutant of Llms: with more engines than producers, a block of
\* neighbouring engines
Llms_Blocks(rank, num_engines, world_size) ==
    IF num_engines <= world_size
    THEN <<rank % num_engines>>
    ELSE [k \in 1 .. ((num_engines - rank + world_size - 1) \div world_size)
             |-> (rank + k - 1) % num_engines]

\* _generate_vllm: llms, the engines of producer rank, as their indices
Llms(rank, num_engines, world_size) ==
    IF num_engines <= world_size
    THEN <<rank % num_engines>>
    ELSE [k \in 1 .. ((num_engines - rank + world_size - 1) \div world_size)
             |-> rank + (k - 1) * world_size]

\* mutant of Expand: the copies of a prompt are dealt one per turn
Expand_Dealt(prompts, n) ==
    [k \in 1 .. Len(prompts) * n |-> prompts[((k - 1) % Len(prompts)) + 1]]

\* sum([[prompt] * args.n_samples_per_prompt for prompt in all_prompts], [])
Expand(prompts, n) ==
    [k \in 1 .. Len(prompts) * n |-> prompts[((k - 1) \div n) + 1]]

\* batch_size = (len(all_prompts) + len(llms) - 1) // len(llms)
BatchSize(prompts, llms) == (prompts + Len(llms) - 1) \div Len(llms)

\* all_prompts[i * batch_size : (i + 1) * batch_size] for the k-th engine
\* of llms, i = k - 1
Slice(all_prompts, batch_size, k) ==
    PySlice(all_prompts, Min((k - 1) * batch_size, Len(all_prompts)),
            k * batch_size)

\* whether the producer calls the engine for a slice: always on the LLM
\* path, only "if messages" on the VLM path
Registers(vlm, slice) == ~vlm \/ Len(slice) > 0

\* the loop over all_outputs in steps of micro_rollout_batch_size: the
\* outputs and the prompts of every micro-batch
MicroBatches(all_outputs, all_prompts, size) ==
    [c \in 1 .. ((Len(all_outputs) + size - 1) \div size) |->
        [outputs |-> PySlice(all_outputs, (c - 1) * size, c * size),
         prompts |-> PySlice(all_prompts,
                             Min((c - 1) * size, Len(all_prompts)),
                             c * size)]]

\* add_requests and add_requests_vlm on engine record e; exc is the
\* exception the call raises
EngineAdd(e, rank, payload) ==
    LET reqs == DictSet(e.requests, rank, payload)
        counter == e.actor_counter + 1
        generated == Generate(Combined(reqs))
    IN  IF counter # e.num_actors
        THEN [e EXCEPT !.requests = reqs, !.actor_counter = counter,
                       !.exc = "none"]
        ELSE IF Len(reqs) # e.num_actors
        THEN [e EXCEPT !.requests = reqs, !.actor_counter = counter,
                       !.exc = "AssertionError"]
        ELSE [e EXCEPT !.requests = <<>>, !.actor_counter = 0,
                       !.has_responses = TRUE,
                       !.responses = SliceResponses(NumRequests(reqs),
                                                    generated.out),
                       !.dispatches = @ + 1,
                       !.discarded = @ \cup (IF e.has_responses
                                             THEN DOMAIN e.responses ELSE {}),
                       !.generated_asleep = @ \/ e.asleep,
                       !.exc = "none"]

\* get_responses on engine record e: the exception it raises
EngineGetExc(e, rank) ==
    IF ~e.has_responses THEN "AttributeError"
    ELSE IF rank \notin DOMAIN e.responses THEN "KeyError"
    ELSE "none"

\* mutant of EngineGet: the slice is returned and stays in the map
EngineGet_NoPop(e, rank) == e

\* get_responses on engine record e: the engine after the call
EngineGet(e, rank) ==
    IF EngineGetExc(e, rank) # "none" THEN e
    ELSE [e EXCEPT !.responses = [k \in DOMAIN e.responses \ {rank} |->
                                     e.responses[k]]]

\* a producer at the start of a rollout
Fresh(round) ==
    [pc |-> "start", round |-> round, exc |-> "none", refs |-> {},
     sent |-> {}, got |-> <<>>, all_outputs |-> <<>>, samples_list |-> <<>>]

AssignInit ==
    /\ fleet \in [num_engines : 1 .. MaxEngines,
                  world_size : 1 .. MaxProducers,
                  vlm : BOOLEAN,
                  vllm_enable_sleep : BOOLEAN,
                  num_prompts : PromptsPerRollout,
                  n_samples_per_prompt : RolloutSamples,
                  micro_rollout_batch_size : MicroRolloutBatchSizes]
    /\ engines = [i \in 0 .. fleet.num_engines - 1 |->
                     [num_actors |-> ExpectedActors(i, fleet.num_engines,
                                                    fleet.world_size),
                      actor_counter |-> 0,
                      requests |-> <<>>,
                      has_responses |-> FALSE,
                      responses |-> <<>>,
                      dispatches |-> 0,
                      discarded |-> {},
                      asleep |-> fleet.vllm_enable_sleep,
                      generated_asleep |-> FALSE,
                      exc |-> "none"]]
    /\ producers = [r \in 0 .. fleet.world_size - 1 |-> Fresh(1)]
    /\ EngineIdle
    /\ GaeIdle
    /\ ScoreIdle
    /\ ListIdle
    /\ FnIdle

assignFrame == <<fleet, engineVars, gaeVars, scoreVars, listVars, fnVars>>

\* the prompts producer r is given, and all_prompts after the expansion
PromptsOf(r) == [p \in 1 .. fleet.num_prompts |-> 100 * r + p]
AllPromptsOf(r) == Expand(PromptsOf(r), fleet.n_samples_per_prompt)

\* the engines of producer r, and the position of engine i among them
LlmsOf(r) == Llms(r, fleet.num_engines, fleet.world_size)
EnginesOf(r) == {LlmsOf(r)[k] : k \in DOMAIN LlmsOf(r)}
PositionOf(r, i) == CHOOSE k \in DOMAIN LlmsOf(r) : LlmsOf(r)[k] = i

\* the slice producer r has for engine i, and whether it calls the engine
RequestsFor(r, i) ==
    Slice(AllPromptsOf(r), BatchSize(Len(AllPromptsOf(r)), LlmsOf(r)),
          PositionOf(r, i))
CallsEngine(r, i) ==
    /\ i \in EnginesOf(r)
    /\ Registers(fleet.vlm, RequestsFor(r, i))

\* the statements of a rollout in program order
StepIndex(p) ==
    CASE p = "start" -> 0
      [] p = "wake_barrier" -> 1
      [] p = "register" -> 2
      [] p = "sent" -> 3
      [] p = "barrier" -> 4
      [] p = "collect" -> 5
      [] p = "collecting" -> 6
      [] p = "sleep" -> 7
      [] p = "round_barrier" -> 8
      [] p = "score" -> 9
      [] p = "done" -> 10

\* whether producer q has reached statement p of rollout round
Reached(q, round, p) ==
    \/ producers[q].round > round
    \/ /\ producers[q].round = round
       /\ StepIndex(producers[q].pc) >= StepIndex(p)

\* mutant of BarrierPassable: a rank leaves without waiting
BarrierPassable_NoWait(r) == TRUE

\* torch.distributed.barrier() returns on rank r once every rank has
\* entered it
BarrierPassable(r) ==
    \A q \in DOMAIN producers :
        Reached(q, producers[r].round, producers[r].pc)

\* whether producer r is running the statement p
At(r, p) == producers[r].exc = "none" /\ producers[r].pc = p

\* batch_vllm_engine_call(engines, method_name): the call goes to every
\* engine from rank 0 only, which waits for all of them
BatchCall(r, asleep) ==
    IF r = 0
    THEN [i \in DOMAIN engines |-> [engines[i] EXCEPT !.asleep = asleep]]
    ELSE engines

\* RemoteExperienceMaker.make_experience_list: under vllm_enable_sleep,
\* batch_vllm_engine_call(self.vllm_engines, "wake_up")
wake_engines(r) ==
    /\ At(r, "start")
    /\ IF fleet.vllm_enable_sleep
       THEN /\ engines' = BatchCall(r, FALSE)
            /\ producers' = [producers EXCEPT ![r].pc = "wake_barrier"]
       ELSE /\ producers' = [producers EXCEPT ![r].pc = "register"]
            /\ UNCHANGED engines
    /\ UNCHANGED assignFrame

\* the torch.distributed.barrier() that follows the wake_up
leave_wake_barrier(r) ==
    /\ At(r, "wake_barrier")
    /\ BarrierPassable(r)
    /\ producers' = [producers EXCEPT ![r].pc = "register"]
    /\ UNCHANGED <<engines, assignFrame>>

\* _generate_vllm: one add_requests.remote or add_requests_vlm.remote to
\* every engine of llms that is given a slice
issue_requests(r) ==
    /\ At(r, "register")
    /\ LET called == {i \in DOMAIN engines : CallsEngine(r, i)}
       IN  producers' = [producers EXCEPT ![r].pc = "sent",
                                          ![r].refs = called,
                                          ![r].sent = called]
    /\ UNCHANGED <<engines, assignFrame>>

\* engine i runs the add_requests call of producer r
engine_add_requests(r, i) ==
    /\ At(r, "sent")
    /\ i \in producers[r].refs
    /\ engines' = [engines EXCEPT
                      ![i] = EngineAdd(engines[i], r, RequestsFor(r, i))]
    /\ producers' = [producers EXCEPT
                        ![r].refs = @ \ {i},
                        ![r].got = [j \in DOMAIN @ \cup {i} |->
                                       IF j = i
                                       THEN [exc |-> engines'[i].exc,
                                             ret |-> <<>>]
                                       ELSE @[j]]]
    /\ UNCHANGED assignFrame

\* the first exception of the calls made to the engines of llms, in the
\* order of llms, or "none"
FirstException(r) ==
    LET failed == {k \in DOMAIN LlmsOf(r) :
                      /\ LlmsOf(r)[k] \in DOMAIN producers[r].got
                      /\ producers[r].got[LlmsOf(r)[k]].exc # "none"}
    IN  IF failed = {} THEN "none"
        ELSE LET first == CHOOSE k \in failed : \A j \in failed : k <= j
             IN  producers[r].got[LlmsOf(r)[first]].exc

\* ray.get(refs)
join_requests(r) ==
    /\ At(r, "sent")
    /\ producers[r].refs = {}
    /\ producers' = [producers EXCEPT
                        ![r].exc = FirstException(r),
                        ![r].got = <<>>,
                        ![r].pc = IF FirstException(r) = "none"
                                  THEN "barrier" ELSE @]
    /\ UNCHANGED <<engines, assignFrame>>

\* torch.distributed.barrier(): "Make sure all requests are sent"
leave_barrier(r) ==
    /\ At(r, "barrier")
    /\ BarrierPassable(r)
    /\ producers' = [producers EXCEPT ![r].pc = "collect"]
    /\ UNCHANGED <<engines, assignFrame>>

\* one get_responses.remote to every engine of llms
issue_get_responses(r) ==
    /\ At(r, "collect")
    /\ producers' = [producers EXCEPT ![r].pc = "collecting",
                                      ![r].refs = EnginesOf(r)]
    /\ UNCHANGED <<engines, assignFrame>>

\* engine i runs the get_responses call of producer r
engine_get_responses(r, i) ==
    /\ At(r, "collecting")
    /\ i \in producers[r].refs
    /\ engines' = [engines EXCEPT ![i] = EngineGet(engines[i], r)]
    /\ producers' =
          [producers EXCEPT
              ![r].refs = @ \ {i},
              ![r].got = [j \in DOMAIN @ \cup {i} |->
                             IF j = i
                             THEN [exc |-> EngineGetExc(engines[i], r),
                                   ret |-> IF EngineGetExc(engines[i], r)
                                              = "none"
                                           THEN engines[i].responses[r]
                                           ELSE <<>>]
                             ELSE @[j]]]
    /\ UNCHANGED assignFrame

\* all_outputs = sum(ray.get(all_output_refs), []) and the cut into
\* micro-batches: generate_samples returns
join_responses(r) ==
    /\ At(r, "collecting")
    /\ producers[r].refs = {}
    /\ IF FirstException(r) = "none"
       THEN LET all_outputs == Cat([k \in DOMAIN LlmsOf(r) |->
                                      producers[r].got[LlmsOf(r)[k]].ret])
            IN  producers' =
                   [producers EXCEPT
                       ![r].pc = "sleep",
                       ![r].got = <<>>,
                       ![r].all_outputs = all_outputs,
                       ![r].samples_list =
                           MicroBatches(all_outputs, AllPromptsOf(r),
                                        fleet.micro_rollout_batch_size)]
       ELSE producers' = [producers EXCEPT ![r].exc = FirstException(r),
                                           ![r].got = <<>>]
    /\ UNCHANGED <<engines, assignFrame>>

\* make_experience_list after generate_samples: under vllm_enable_sleep,
\* batch_vllm_engine_call(self.vllm_engines, "sleep")
sleep_after_generation(r) ==
    /\ At(r, "sleep")
    /\ engines' = IF fleet.vllm_enable_sleep THEN BatchCall(r, TRUE)
                  ELSE engines
    /\ producers' = [producers EXCEPT ![r].pc = "round_barrier"]
    /\ UNCHANGED assignFrame

\* the torch.distributed.barrier() before the scoring loop
leave_round_barrier(r) ==
    /\ At(r, "round_barrier")
    /\ BarrierPassable(r)
    /\ producers' = [producers EXCEPT ![r].pc = "score"]
    /\ UNCHANGED <<engines, assignFrame>>

\* the scoring loop and the rest of make_experience_list; the trainer then
\* calls it again for the next rollout
score_samples(r) ==
    /\ At(r, "score")
    /\ producers' = [producers EXCEPT
                        ![r] = IF @.round < MaxRounds
                               THEN Fresh(@.round + 1)
                               ELSE [@ EXCEPT !.pc = "done"]]
    /\ UNCHANGED <<engines, assignFrame>>

AssignNext ==
    \/ \E r \in DOMAIN producers : wake_engines(r)
    \/ \E r \in DOMAIN producers : leave_wake_barrier(r)
    \/ \E r \in DOMAIN producers : issue_requests(r)
    \/ \E r \in DOMAIN producers : \E i \in DOMAIN engines :
          engine_add_requests(r, i)
    \/ \E r \in DOMAIN producers : join_requests(r)
    \/ \E r \in DOMAIN producers : leave_barrier(r)
    \/ \E r \in DOMAIN producers : issue_get_responses(r)
    \/ \E r \in DOMAIN producers : \E i \in DOMAIN engines :
          engine_get_responses(r, i)
    \/ \E r \in DOMAIN producers : join_responses(r)
    \/ \E r \in DOMAIN producers : sleep_after_generation(r)
    \/ \E r \in DOMAIN producers : leave_round_barrier(r)
    \/ \E r \in DOMAIN producers : score_samples(r)

AssignSpec == AssignInit /\ [][AssignNext]_vars

(* ============ claims about the assignment of producers ================= *)

\* the producers whose llms holds engine i
ProducersOf(i) == {r \in DOMAIN producers : i \in EnginesOf(r)}

\* every engine expects as many producers as have it among their engines:
\* rank r has engine r mod E when E <= W, and the engines i with
\* i mod W = r when E > W
ExpectedMatchesAssigned ==
    \A i \in DOMAIN engines :
        /\ engines[i].num_actors = Cardinality(ProducersOf(i))
        /\ ProducersOf(i) =
               {r \in DOMAIN producers :
                   IF fleet.num_engines <= fleet.world_size
                   THEN r % fleet.num_engines = i
                   ELSE i % fleet.world_size = r}

\* every producer has left the registration of the first rollout behind
\* and is still in that rollout
AllRegistered ==
    \A r \in DOMAIN producers :
        /\ producers[r].round = 1
        /\ StepIndex(producers[r].pc) >= StepIndex("barrier")

\* C30: every engine expects as many producers as register with it, so once
\* every producer has registered every engine has dispatched exactly once,
\* and no producer fails for want of a dispatch.
C30_EveryEngineDispatchesOnce ==
    fleet # None =>
        /\ ExpectedMatchesAssigned
        /\ AllRegistered =>
              \A i \in DOMAIN engines : engines[i].dispatches = 1
        /\ \A r \in DOMAIN producers : producers[r].exc = "none"

\* C31: producer r uses exactly engine r mod E when there are no more
\* engines than producers, and exactly the engines r, r + W, r + 2W, ...
\* below E otherwise; every producer has at least one engine, every engine
\* at least one producer, and a producer calls no engine outside its own.
C31_RoundRobinAssignment ==
    fleet # None =>
        /\ \A r \in DOMAIN producers :
              /\ Len(LlmsOf(r)) >= 1
              /\ IF fleet.num_engines <= fleet.world_size
                 THEN LlmsOf(r) = <<r % fleet.num_engines>>
                 ELSE /\ EnginesOf(r) = {i \in DOMAIN engines :
                                            i % fleet.world_size = r}
                      /\ LlmsOf(r)[1] = r
                      /\ \A k \in 2 .. Len(LlmsOf(r)) :
                            LlmsOf(r)[k] = LlmsOf(r)[k - 1] + fleet.world_size
              /\ producers[r].sent \subseteq EnginesOf(r)
              /\ producers[r].refs \subseteq EnginesOf(r)
              /\ (~fleet.vlm /\ producers[r].pc # "start"
                     /\ StepIndex(producers[r].pc) >= StepIndex("sent"))
                    => producers[r].sent = EnginesOf(r)
        /\ \A i \in DOMAIN engines :
              /\ ProducersOf(i) # {}
              /\ DictKeys(engines[i].requests) \subseteq ProducersOf(i)
              /\ DOMAIN engines[i].responses \subseteq ProducersOf(i)

\* C31 witness: three engines and two producers; producer 0 has registered
\* with engines 0 and 2, producer 1 with engine 1
C31_Witness ==
    /\ fleet # None
    /\ fleet.num_engines = 3
    /\ fleet.world_size = 2
    /\ LlmsOf(0) = <<0, 2>>
    /\ LlmsOf(1) = <<1>>
    /\ producers[0].pc = "barrier"
    /\ producers[0].sent = {0, 2}
    /\ producers[1].pc = "barrier"
    /\ producers[1].sent = {1}

\* C31 witness of the shared engine: one engine, two producers, both
\* registered with engine 0
C31_WitnessShared ==
    /\ fleet # None
    /\ fleet.num_engines = 1
    /\ fleet.world_size = 2
    /\ producers[0].sent = {0}
    /\ producers[1].sent = {0}
    /\ engines[0].dispatches = 1

\* producer r holds the samples of its current rollout
HasSamples(r) ==
    /\ producers[r].exc = "none"
    /\ StepIndex(producers[r].pc) >= StepIndex("sleep")

\* C32: every prompt is expanded into n_samples_per_prompt neighbouring
\* copies in prompt order; the slices for the producer's engines are
\* neighbouring pieces that cover the expanded list exactly once; the k-th
\* element of the reassembled outputs is the response to the k-th expanded
\* prompt; the outputs are cut in order into micro-batches of at most
\* micro_rollout_batch_size, each with the prompts at the same indices.
C32_OutputsFollowExpandedPrompts ==
    fleet # None =>
        \A r \in DOMAIN producers :
            LET n == fleet.n_samples_per_prompt
                size == fleet.micro_rollout_batch_size
                all_prompts == AllPromptsOf(r)
                slices == [k \in DOMAIN LlmsOf(r) |->
                              RequestsFor(r, LlmsOf(r)[k])]
                samples_list == producers[r].samples_list
            IN  /\ Len(all_prompts) = fleet.num_prompts * n
                /\ \A p \in 1 .. fleet.num_prompts : \A c \in 1 .. n :
                      all_prompts[(p - 1) * n + c] = PromptsOf(r)[p]
                /\ Cat(slices) = all_prompts
                /\ HasSamples(r) =>
                      /\ Len(producers[r].all_outputs) = Len(all_prompts)
                      /\ \A k \in DOMAIN all_prompts :
                            producers[r].all_outputs[k]
                                = Output(all_prompts[k])
                      /\ Cat([c \in DOMAIN samples_list |->
                                 samples_list[c].outputs])
                            = producers[r].all_outputs
                      /\ \A c \in DOMAIN samples_list :
                            /\ Len(samples_list[c].outputs) \in 1 .. size
                            /\ c < Len(samples_list) =>
                                  Len(samples_list[c].outputs) = size
                            /\ Len(samples_list[c].prompts)
                                  = Len(samples_list[c].outputs)
                            /\ \A j \in DOMAIN samples_list[c].outputs :
                                  /\ samples_list[c].outputs[j] =
                                        producers[r].all_outputs[
                                            (c - 1) * size + j]
                                  /\ samples_list[c].prompts[j] =
                                        all_prompts[(c - 1) * size + j]

\* C32 witness: one producer over three engines, two prompts of two
\* samples each in the slices [1, 1], [2, 2] and [], micro-batches of 3:
\* the outputs come back in prompt order, cut into a micro-batch of three
\* and one of one
C32_Witness ==
    /\ fleet # None
    /\ fleet.num_engines = 3
    /\ fleet.world_size = 1
    /\ ~fleet.vlm
    /\ RequestsFor(0, 0) = <<1, 1>>
    /\ RequestsFor(0, 1) = <<2, 2>>
    /\ RequestsFor(0, 2) = <<>>
    /\ producers[0].pc = "sleep"
    /\ producers[0].all_outputs = <<Output(1), Output(1), Output(2), Output(2)>>
    /\ producers[0].samples_list =
          <<[outputs |-> <<Output(1), Output(1), Output(2)>>,
             prompts |-> <<1, 1, 2>>],
            [outputs |-> <<Output(2)>>, prompts |-> <<2>>]>>

\* C33 as stated: every get_responses call reaches its engine only after
\* the engine has dispatched the rollout in which the rank registered, so
\* no get_responses call finds its slice missing.
C33_CollectFindsItsSlice ==
    fleet # None =>
        \A r \in DOMAIN producers :
            /\ producers[r].exc \notin {"AttributeError", "KeyError"}
            /\ producers[r].pc = "collecting" =>
                  \A i \in producers[r].refs :
                      /\ engines[i].dispatches = producers[r].round
                      /\ EngineGetExc(engines[i], r) = "none"

\* C34: when an engine dispatches a later rollout, every producer of the
\* engine has collected its slice of the rollout before, so the
\* replacement of the result map discards no slice.
C34_NoSliceDiscardedAcrossRollouts ==
    [][ \A i \in DOMAIN engines :
           engines'[i].dispatches # engines[i].dispatches =>
               /\ engines[i].has_responses =>
                     DOMAIN engines[i].responses = {}
               /\ engines'[i].discarded = {}
               /\ \A q \in ProducersOf(i) :
                     producers[q].round = engines'[i].dispatches
      ]_vars

\* C34 witness: an engine two producers share has dispatched its second
\* rollout and has discarded nothing
C34_Witness ==
    /\ fleet # None
    /\ fleet.world_size = 2
    /\ \E i \in DOMAIN engines :
          /\ engines[i].num_actors = 2
          /\ engines[i].dispatches = 2
          /\ engines[i].discarded = {}
          /\ DOMAIN engines[i].responses = {0, 1}

\* C35 as stated: on the VLM path a producer registers with every engine
\* it afterwards collects from, the engines of empty slices included, so
\* every engine of the producer reaches its expected count and dispatches.
C35_VlmRegistersWithEveryEngine ==
    (fleet # None /\ fleet.vlm) =>
        \A r \in DOMAIN producers :
            (producers[r].pc # "start"
                /\ StepIndex(producers[r].pc) >= StepIndex("sent")) =>
                /\ producers[r].sent = EnginesOf(r)
                /\ StepIndex(producers[r].pc) >= StepIndex("collect") =>
                      \A i \in EnginesOf(r) :
                          engines[i].dispatches >= producers[r].round

\* a step in which a producer sends its requests to its engines
RegistrationStep(r) ==
    producers[r].pc = "register" /\ producers'[r].pc = "sent"

\* a step that puts an engine to sleep
SleepStep == \E i \in DOMAIN engines : ~engines[i].asleep /\ engines'[i].asleep

\* whether a generation call of engine i is pending or on its way
GenerationPending(i) ==
    \/ engines[i].actor_counter > 0
    \/ \E q \in DOMAIN producers :
          producers[q].pc = "sent" /\ i \in producers[q].refs

\* C36: under vllm_enable_sleep the engines are awake and every rank has
\* entered the barrier after the wake-up before any producer registers; the
\* engines are put to sleep only when every generation call of the rollout
\* has completed and no rank has started scoring; and no engine is asleep
\* while a generation call is pending or running.
C36_SleepBracketsGeneration ==
    [][ fleet.vllm_enable_sleep =>
          /\ \A r \in DOMAIN producers :
                RegistrationStep(r) =>
                    /\ \A i \in DOMAIN engines : ~engines[i].asleep
                    /\ \A q \in DOMAIN producers :
                          Reached(q, producers[r].round, "wake_barrier")
          /\ SleepStep =>
                /\ \A i \in DOMAIN engines : ~GenerationPending(i)
                /\ \A q \in DOMAIN producers :
                      /\ Reached(q, producers[0].round, "barrier")
                      /\ ~Reached(q, producers[0].round, "score")
          /\ \A i \in DOMAIN engines :
                /\ engines[i].asleep => ~GenerationPending(i)
                /\ ~engines'[i].generated_asleep
      ]_vars

\* C36 witness: rank 0 has put the engines to sleep after the generation
\* of the rollout, while rank 1 is still collecting its slice
C36_Witness ==
    /\ fleet # None
    /\ fleet.vllm_enable_sleep
    /\ fleet.world_size = 2
    /\ producers[0].pc = "round_barrier"
    /\ producers[1].pc \in {"collect", "collecting"}
    /\ \A i \in DOMAIN engines :
          engines[i].asleep /\ engines[i].dispatches = producers[0].round

====
